---- MODULE Spec2Model ----
(***************************************************************************)
(* CEV scoring pipeline and benchmark engine.                              *)
(*                                                                         *)
(* Numbers.  Python floats are modelled as exact rationals [n, d] in       *)
(* lowest terms with d > 0; the IEEE specials that numpy/pandas produce    *)
(* are NaN = 0/0, +inf = 1/0 and -inf = -1/0.  A Python exception is a     *)
(* result record with status "raised".                                     *)
(***************************************************************************)
EXTENDS Integers, Sequences, FiniteSets, TLC

VARIABLES
    loader,      \* YAMLDataLoader: units, weapons, commanders
    config,      \* CalculationConfig held by CEVCalculatorV24
    database,    \* UnitDatabase.commanders held by EnhancedCEVCalculator
    results_df,  \* BenchmarkSystemV2.results_df, a sequence of rows
    heap,        \* objects of an overlay call: "in" is the caller's object
    before,      \* value of the caller's object when the overlay was called
    experiment,  \* an experiment directory: metadata status and files
    call,        \* the last call made: operation and arguments
    result       \* what that call returned or raised

vars ==
    <<loader, config, database, results_df, heap, before, experiment, call,
      result>>

-----------------------------------------------------------------------------
(* Rational arithmetic *)

Abs(x) == IF x < 0 THEN -x ELSE x

Sign(x) == IF x < 0 THEN -1 ELSE IF x > 0 THEN 1 ELSE 0

RECURSIVE GCD(_, _)
GCD(a, b) == IF b = 0 THEN a ELSE GCD(b, a % b)

Frac(n, d) ==
    IF d = 0 THEN [n |-> Sign(n), d |-> 0]
    ELSE LET g == GCD(Abs(n), Abs(d))
         IN  [n |-> Sign(d) * (n \div g), d |-> Abs(d) \div g]

R(x) == [n |-> x, d |-> 1]

NaN == [n |-> 0, d |-> 0]
PosInf == [n |-> 1, d |-> 0]
NegInf == [n |-> -1, d |-> 0]

IsFinite(a) == a.d # 0
IsNaN(a) == a = NaN

RNeg(a) == [n |-> -a.n, d |-> a.d]

RMul(a, b) ==
    LET g1 == GCD(Abs(a.n), b.d)
        g2 == GCD(Abs(b.n), a.d)
    IN  IF a.n = 0 \/ b.n = 0 THEN R(0)
        ELSE [n |-> (a.n \div g1) * (b.n \div g2),
              d |-> (a.d \div g2) * (b.d \div g1)]

RAdd(a, b) ==
    LET g == GCD(a.d, b.d)
    IN  Frac(a.n * (b.d \div g) + b.n * (a.d \div g), (a.d \div g) * b.d)

RSub(a, b) == RAdd(a, RNeg(b))

\* a / b for finite a and finite non-zero b
RDiv(a, b) == RMul(a, [n |-> Sign(b.n) * b.d, d |-> Abs(b.n)])

RLt(a, b) == a.n * b.d < b.n * a.d
RLe(a, b) == a.n * b.d <= b.n * a.d
RMin(a, b) == IF RLt(b, a) THEN b ELSE a

\* floor of a non-negative rational
RFloor(a) == a.n \div a.d

\* largest k with k * k <= x, for x >= 0, by bisection of lo..hi
RECURSIVE ISqrtIn(_, _, _)
ISqrtIn(x, lo, hi) ==
    IF lo >= hi THEN lo
    ELSE LET mid == (lo + hi + 1) \div 2
         IN  IF mid * mid <= x THEN ISqrtIn(x, mid, hi)
             ELSE ISqrtIn(x, lo, mid - 1)
ISqrt(x) == ISqrtIn(x, 0, IF x < 46340 THEN x ELSE 46340)

IsSquare(x) == ISqrt(x) * ISqrt(x) = x

\* math.sqrt of a non-negative rational: exact when the root is rational,
\* otherwise cut to three decimals
Sqrt(a) ==
    IF IsSquare(a.n) /\ IsSquare(a.d) THEN Frac(ISqrt(a.n), ISqrt(a.d))
    ELSE Frac(ISqrt((a.n * 1000 * 1000) \div a.d), 1000)

\* round(x, 2) for x >= 0: nearest hundredth, ties to even
Round2(a) ==
    LET whole == a.n \div a.d
        rest == a.n % a.d
        h == (100 * rest) \div a.d
        r2 == 2 * ((100 * rest) % a.d)
        up == r2 > a.d \/ (r2 = a.d /\ h % 2 = 1)
    IN  Frac(100 * whole + h + (IF up THEN 1 ELSE 0), 100)

\* dict.get(key, default)
Get(dict, key, default) == IF key \in DOMAIN dict THEN dict[key] ELSE default

EmptyDict == [k \in {} |-> 0]

\* Python None for an object reference, and for an optional string argument
None == [none |-> TRUE]
NoneStr == "<None>"

Raised(err, what, steps) ==
    [status |-> "raised", error |-> err, what |-> what, steps |-> steps]

-----------------------------------------------------------------------------
(* YAMLDataLoader records and the data a session loads *)

WeaponConfig(mode, ref, dflt) ==
    [mode |-> mode, weapon_ref |-> ref, is_default |-> dflt]

WeaponData(id, damage, attacks, period, range, splash_radius, bonus, upgrades) ==
    [id |-> id, damage |-> damage, attacks |-> attacks, period |-> period,
     range |-> range, splash_radius |-> splash_radius,
     attribute_bonus |-> bonus, upgrades |-> upgrades]

UnitData(id, commander, life, armor, shields, minerals, vespene, supply, radius, plane, weapons) ==
    [id |-> id, name |-> id, commander |-> commander, life |-> life,
     armor |-> armor, shields |-> shields, minerals |-> minerals,
     vespene |-> vespene, supply |-> supply, radius |-> radius,
     plane |-> plane, weapons |-> weapons]

CommanderData(id, population_cap, mineral_gas_ratio, no_supply_tax) ==
    [id |-> id, name |-> id, population_cap |-> population_cap,
     mineral_gas_ratio |-> mineral_gas_ratio, no_supply_tax |-> no_supply_tax]

LoadedWeapons ==
    [w \in {"Gauss", "Lance", "LibAA", "LibAG", "Cannon", "Shock"} |->
       CASE w = "Gauss" ->
              WeaponData(w, R(6), 1, R(1), R(2), R(0), EmptyDict, EmptyDict)
         [] w = "Lance" ->
              WeaponData(w, R(45), 4, R(2), R(18), R(0),
                         [a \in {"Armored"} |-> R(15)], EmptyDict)
         [] w = "LibAA" ->
              WeaponData(w, R(7), 2, Frac(9, 5), R(8), Frac(3, 2),
                         EmptyDict, EmptyDict)
         [] w = "LibAG" ->
              WeaponData(w, R(85), 1, R(2), R(8), R(0), EmptyDict, EmptyDict)
         [] w = "Cannon" ->
              WeaponData(w, R(15), 1, R(1), R(4), R(0),
                         [a \in {"Armored"} |-> R(10)], EmptyDict)
         [] w = "Shock" ->
              WeaponData(w, R(40), 1, R(3), R(9), Frac(5, 4),
                         [a \in {"Armored"} |-> R(30)],
                         [u \in {"MaelstromRounds"} |->
                            [bonus_damage_main_target |-> R(40)]])]

LoadedUnits ==
    [u \in {"Marine", "ThorMk2", "Liberator_BlackOps", "SiegeTank",
            "Zergling", "Orphan", "Ghost", "Unarmed"} |->
       CASE u = "Marine" ->
              UnitData(u, "Raynor", R(45), R(0), R(0), 50, 0, 1, Frac(1, 2),
                       "Ground", <<WeaponConfig(NoneStr, "Gauss", TRUE)>>)
         [] u = "ThorMk2" ->
              UnitData(u, "Moebius", R(300), R(5), R(170), 600, 450, 6, R(2),
                       "Ground", <<WeaponConfig("default", "Lance", TRUE)>>)
         [] u = "Liberator_BlackOps" ->
              UnitData(u, "Nova", R(180), R(0), R(0), 150, 125, 3, R(1),
                       "Air", <<WeaponConfig("AA", "LibAA", TRUE),
                                WeaponConfig("AG", "LibAG", FALSE)>>)
         [] u = "SiegeTank" ->
              UnitData(u, "Swann", R(160), R(1), R(0), 150, 125, 3, R(1),
                       "Ground", <<WeaponConfig("tank", "Cannon", FALSE),
                                   WeaponConfig("siege", "Shock", FALSE)>>)
         [] u = "Zergling" ->
              \* a free unit of a commander without supply structures
              UnitData(u, "Dehaka", R(35), R(0), R(0), 0, 0, 0, Frac(1, 2),
                       "Ground", <<WeaponConfig(NoneStr, "Gauss", TRUE)>>)
         [] u = "Orphan" ->
              UnitData(u, "Unknown", R(45), R(0), R(0), 50, 0, 1, Frac(1, 2),
                       "Ground", <<WeaponConfig(NoneStr, "Gauss", TRUE)>>)
         [] u = "Ghost" ->
              UnitData(u, "Nova", R(100), R(0), R(0), 150, 125, 2, Frac(1, 2),
                       "Ground", <<WeaponConfig("rifle", "Missing", TRUE),
                                   WeaponConfig("snipe", NoneStr, FALSE)>>)
         [] u = "Unarmed" ->
              UnitData(u, "Raynor", R(60), R(1), R(0), 100, 0, 1, Frac(1, 2),
                       "Ground", <<>>)]

LoadedCommanders ==
    [c \in {"Raynor", "Moebius", "Nova", "Swann", "Dehaka"} |->
       CASE c = "Raynor" -> CommanderData(c, 200, Frac(5, 2), FALSE)
         [] c = "Moebius" -> CommanderData(c, 200, Frac(5, 2), FALSE)
         [] c = "Nova" -> CommanderData(c, 100, R(1), TRUE)
         [] c = "Swann" -> CommanderData(c, 200, Frac(5, 2), FALSE)
         [] c = "Dehaka" -> CommanderData(c, 200, Frac(5, 2), TRUE)]

YAMLDataLoader ==
    [units |-> LoadedUnits, weapons |-> LoadedWeapons,
     commanders |-> LoadedCommanders]

get_unit(l, unit_id) == Get(l.units, unit_id, None)

get_weapon(l, weapon_id) == Get(l.weapons, weapon_id, None)

\* a lookup that falls back to a default commander instead of None
get_commander_or_default(l, commander_id) ==
    Get(l.commanders, commander_id,
        CommanderData("default", 200, Frac(5, 2), FALSE))

get_commander(l, commander_id) == Get(l.commanders, commander_id, None)

\* unit.id.split('_')[0]
SplitFirst(id) == IF id = "Liberator_BlackOps" THEN "Liberator" ELSE id

\* "Liberator" in unit.id
ContainsLiberator(id) == id = "Liberator_BlackOps"

-----------------------------------------------------------------------------
(* CalculationConfig *)

DefaultSplashFactors ==
    [k \in {"SiegeTank", "Liberator_AA", "Liberator_AG", "default"} |->
       CASE k = "SiegeTank" -> Frac(5, 4)
         [] k = "Liberator_AA" -> Frac(5, 2)
         [] OTHER -> R(1)]

DefaultOperationFactors ==
    [k \in {"Wrathwalker", "ColossusTaldarim", "SiegeTank", "Impaler",
            "Liberator_AG", "Dragoon", "default"} |->
       CASE k \in {"Wrathwalker", "ColossusTaldarim"} -> Frac(11, 10)
         [] k = "SiegeTank" -> Frac(4, 5)
         [] k = "Impaler" -> Frac(9, 10)
         [] k = "Liberator_AG" -> Frac(3, 4)
         [] OTHER -> R(1)]

DefaultOverkillThresholds ==
    << <<R(200), Frac(4, 5)>>, <<R(150), Frac(17, 20)>>,
       <<R(100), Frac(9, 10)>>, <<R(0), R(1)>> >>

\* CalculationConfig(): __post_init__ fills every table but mastery_config
CalculationConfig ==
    [mineral_gas_ratio |-> Frac(5, 2),
     splash_factors |-> DefaultSplashFactors,
     operation_factors |-> DefaultOperationFactors,
     overkill_thresholds |-> DefaultOverkillThresholds,
     mastery_config |-> None,
     scenario |-> "standard",
     population_tax_per_supply |-> Frac(25, 2)]

\* the configuration run_evaluation.py builds
create_calculation_config ==
    [mineral_gas_ratio |-> Frac(5, 2),
     splash_factors |->
       [k \in {"Liberator_AA", "Liberator_AG", "SiegeTank", "Wrathwalker",
               "Impaler", "Dragoon", "default"} |->
          IF k = "SiegeTank" THEN Frac(7, 5) ELSE R(1)],
     operation_factors |->
       [k \in {"Wrathwalker", "ColossusTaldarim", "Liberator", "Liberator_AG",
               "SiegeTank", "Impaler", "Dragoon", "default"} |->
          CASE k \in {"Wrathwalker", "ColossusTaldarim"} -> Frac(13, 10)
            [] k \in {"Liberator", "Liberator_AG"} -> Frac(3, 4)
            [] k \in {"SiegeTank", "Impaler"} -> Frac(4, 5)
            [] OTHER -> R(1)],
     overkill_thresholds |-> DefaultOverkillThresholds,
     mastery_config |->
       [c \in {"Nova", "Alarak", "Swann", "Dehaka", "Artanis"} |->
          CASE c \in {"Nova", "Alarak"} ->
                 [k \in {"attack_speed"} |-> Frac(3, 20)]
            [] c = "Swann" -> [k \in {"mech_life"} |-> Frac(3, 10)]
            [] OTHER -> EmptyDict],
     scenario |-> "standard",
     population_tax_per_supply |-> Frac(25, 2)]

-----------------------------------------------------------------------------
(* CEVCalculatorV24 *)

\* `if not mode`
NotMode(mode) == mode = NoneStr \/ mode = ""

\* indexes of the weapon configs the two loops of _get_weapon_for_mode match
DefaultConfigs(unit) == {i \in DOMAIN unit.weapons : unit.weapons[i].is_default}
ModeConfigs(unit, mode) ==
    {i \in DOMAIN unit.weapons : unit.weapons[i].mode = mode}

Lowest(S) == CHOOSE i \in S : \A j \in S : i <= j

get_weapon_for_mode(l, unit, mode) ==
    IF unit.weapons = <<>> THEN None
    ELSE IF NotMode(mode) THEN
           IF DefaultConfigs(unit) # {}
           THEN get_weapon(l, unit.weapons[Lowest(DefaultConfigs(unit))].weapon_ref)
           ELSE get_weapon(l, unit.weapons[1].weapon_ref)
    ELSE IF ModeConfigs(unit, mode) # {}
         THEN get_weapon(l, unit.weapons[Lowest(ModeConfigs(unit, mode))].weapon_ref)
         ELSE None

get_splash_factor(cfg, unit, weapon, mode) ==
    IF RLt(R(0), weapon.splash_radius) THEN
        LET unit_type == SplitFirst(unit.id)
        IN  IF unit_type = "Liberator" /\ ~NotMode(mode)
            THEN Get(cfg.splash_factors, "Liberator_" \o mode,
                     cfg.splash_factors["default"])
            ELSE Get(cfg.splash_factors,
                     IF unit_type = "SiegeTankSieged" THEN "SiegeTank"
                     ELSE unit_type,
                     cfg.splash_factors["default"])
    ELSE R(1)

get_mastery_attack_speed(cfg, commander) ==
    Get(Get(cfg.mastery_config, commander.id, EmptyDict), "attack_speed", R(0))

\* damage per attack after the scenario bonus and the upgrade bonus
V24_damage(weapon, scenario) ==
    LET base == RMul(weapon.damage, R(weapon.attacks))
        withAttr ==
          IF scenario = "vs_armored"
          THEN RAdd(base, Get(weapon.attribute_bonus, "Armored", R(0)))
          ELSE IF scenario = "vs_light"
          THEN RAdd(base, Get(weapon.attribute_bonus, "Light", R(0)))
          ELSE base
    IN  IF "MaelstromRounds" \in DOMAIN weapon.upgrades
        THEN RAdd(withAttr,
                  weapon.upgrades["MaelstromRounds"].bonus_damage_main_target)
        ELSE withAttr

V24_period(cfg, weapon, apply_mastery, commander) ==
    IF apply_mastery
    THEN RDiv(weapon.period, RAdd(R(1), get_mastery_attack_speed(cfg, commander)))
    ELSE weapon.period

\* the exception _calculate_effective_dps raises, or "" when it returns
V24_dps_error(cfg, weapon, apply_mastery) ==
    IF apply_mastery /\ cfg.mastery_config = None THEN "AttributeError"
    ELSE IF weapon.period.n = 0 THEN "ZeroDivisionError"
    ELSE ""

calculate_effective_dps(cfg, unit, weapon, apply_mastery, commander, mode, scenario) ==
    RDiv(RMul(V24_damage(weapon, scenario),
              get_splash_factor(cfg, unit, weapon, mode)),
         V24_period(cfg, weapon, apply_mastery, commander))

RECURSIVE FirstReached(_, _, _)
FirstReached(thresholds, damage, i) ==
    IF i > Len(thresholds) THEN R(1)
    ELSE IF RLe(thresholds[i][1], damage) THEN thresholds[i][2]
    ELSE FirstReached(thresholds, damage, i + 1)

calculate_overkill_penalty(cfg, weapon) ==
    FirstReached(cfg.overkill_thresholds,
                 RMul(weapon.damage, R(weapon.attacks)), 1)

V24_ehp_error(cfg, unit, commander, apply_mastery) ==
    IF apply_mastery /\ commander.id = "Swann" /\ cfg.mastery_config = None
    THEN "AttributeError"
    ELSE ""

\* the armor reduction taken at half its value
calculate_effective_hp_half_armor(cfg, unit, commander, apply_mastery) ==
    LET life ==
          IF apply_mastery /\ commander.id = "Swann"
          THEN RMul(unit.life,
                    RAdd(R(1), Get(Get(cfg.mastery_config, "Swann", EmptyDict),
                                   "mech_life", Frac(3, 10))))
          ELSE unit.life
        armor_reduction ==
          RMul(Frac(1, 2), RDiv(unit.armor, RAdd(unit.armor, R(10))))
        hp_eff == RDiv(life, RSub(R(1), armor_reduction))
        shield_eff == RMul(unit.shields, Frac(7, 5))
    IN  RAdd(hp_eff, shield_eff)

calculate_effective_hp(cfg, unit, commander, apply_mastery) ==
    LET life ==
          IF apply_mastery /\ commander.id = "Swann"
          THEN RMul(unit.life,
                    RAdd(R(1), Get(Get(cfg.mastery_config, "Swann", EmptyDict),
                                   "mech_life", Frac(3, 10))))
          ELSE unit.life
        armor_reduction == RDiv(unit.armor, RAdd(unit.armor, R(10)))
        hp_eff == RDiv(life, RSub(R(1), armor_reduction))
        shield_eff == RMul(unit.shields, Frac(7, 5))
    IN  RAdd(hp_eff, shield_eff)

calculate_operation_factor(cfg, unit, mode) ==
    IF mode = "AG" /\ ContainsLiberator(unit.id)
    THEN Get(cfg.operation_factors, "Liberator_AG", Frac(3, 4))
    ELSE LET t == SplitFirst(unit.id)
             unit_type == IF t = "ImpalerDehaka" THEN "Impaler"
                          ELSE IF t = "SiegeTankSieged" THEN "SiegeTank"
                          ELSE t
         IN  Get(cfg.operation_factors, unit_type,
                 cfg.operation_factors["default"])

V24_radius(unit) == IF unit.plane = "Air" THEN Frac(1, 2) ELSE unit.radius

V24_range_error(weapon, unit) ==
    IF V24_radius(unit).n = 0 THEN "ZeroDivisionError" ELSE ""

calculate_range_factor(weapon, unit) ==
    Sqrt(RDiv(weapon.range, V24_radius(unit)))

calculate_effective_cost(cfg, unit, commander) ==
    LET base_cost == RAdd(R(unit.minerals),
                          RMul(R(unit.vespene), commander.mineral_gas_ratio))
    IN  IF ~commander.no_supply_tax
        THEN RAdd(base_cost,
                  RMul(R(unit.supply), cfg.population_tax_per_supply))
        ELSE base_cost

\* the multiplier taken upside down
calculate_population_multiplier_inverted(commander) ==
    Frac(commander.population_cap, 200)

calculate_population_multiplier(commander) ==
    Frac(200, commander.population_cap)

\* deepcopy(unit): a fresh object with the same field values
deepcopy(obj) == obj

V24_calculate_cev(l, cfg, unit_id, weapon_mode, apply_mastery, scenario) ==
    LET current_scenario ==
          IF scenario = NoneStr \/ scenario = "" THEN cfg.scenario ELSE scenario
        unit == get_unit(l, unit_id)
        unit_copy == deepcopy(unit)
        commander == get_commander(l, unit_copy.commander)
        weapon_data == get_weapon_for_mode(l, unit_copy, weapon_mode)
        dps_eff == calculate_effective_dps(cfg, unit_copy, weapon_data,
                       apply_mastery, commander, weapon_mode, current_scenario)
        psi == calculate_overkill_penalty(cfg, weapon_data)
        ehp == calculate_effective_hp(cfg, unit_copy, commander, apply_mastery)
        omega == calculate_operation_factor(cfg, unit_copy, weapon_mode)
        f_range == calculate_range_factor(weapon_data, unit_copy)
        c_eff == calculate_effective_cost(cfg, unit_copy, commander)
        mu == calculate_population_multiplier(commander)
        cev == RDiv(RMul(RMul(RMul(RMul(dps_eff, psi), ehp), omega), f_range),
                    c_eff)
        effective_pop == RMul(R(unit_copy.supply), mu)
        cev_per_pop == IF RLt(R(0), effective_pop)
                       THEN RDiv(cev, effective_pop) ELSE R(0)
    IN  IF unit = None THEN Raised("ValueError", "unit_not_found", <<>>)
        ELSE IF commander = None
        THEN Raised("ValueError", "commander_not_found", <<>>)
        ELSE IF weapon_data = None
        THEN Raised("ValueError", "weapon_not_found", <<>>)
        ELSE IF V24_dps_error(cfg, weapon_data, apply_mastery) # ""
        THEN Raised(V24_dps_error(cfg, weapon_data, apply_mastery),
                    "dps_eff", <<>>)
        ELSE IF V24_ehp_error(cfg, unit_copy, commander, apply_mastery) # ""
        THEN Raised(V24_ehp_error(cfg, unit_copy, commander, apply_mastery),
                    "ehp", <<"dps_eff", "psi">>)
        ELSE IF V24_range_error(weapon_data, unit_copy) # ""
        THEN Raised(V24_range_error(weapon_data, unit_copy), "f_range",
                    <<"dps_eff", "psi", "ehp", "omega">>)
        ELSE IF commander.population_cap = 0
        THEN Raised("ZeroDivisionError", "mu",
                    <<"dps_eff", "psi", "ehp", "omega", "f_range", "c_eff">>)
        ELSE IF c_eff.n = 0
        THEN Raised("ZeroDivisionError", "cev",
                    <<"dps_eff", "psi", "ehp", "omega", "f_range", "c_eff",
                      "mu">>)
        ELSE [status |-> "ok",
              steps |-> <<"dps_eff", "psi", "ehp", "omega", "f_range",
                          "c_eff", "mu", "cev">>,
              cev |-> Round2(cev),
              cev_per_pop |-> Round2(cev_per_pop),
              unit_name |-> unit_copy.name,
              commander |-> commander.name,
              weapon_mode |-> IF NotMode(weapon_mode) THEN "default"
                              ELSE weapon_mode,
              scenario |-> current_scenario,
              components |->
                [dps_eff |-> Round2(dps_eff), psi |-> Round2(psi),
                 ehp |-> Round2(ehp), omega |-> Round2(omega),
                 f_range |-> Round2(f_range), c_eff |-> Round2(c_eff),
                 mu |-> Round2(mu),
                 splash_factor |->
                   get_splash_factor(cfg, unit_copy, weapon_data, weapon_mode)],
              details |->
                [base_damage |-> weapon_data.damage,
                 attacks |-> weapon_data.attacks,
                 period |-> weapon_data.period,
                 range |-> weapon_data.range,
                 life |-> unit_copy.life, armor |-> unit_copy.armor,
                 shields |-> unit_copy.shields,
                 minerals |-> unit_copy.minerals,
                 vespene |-> unit_copy.vespene,
                 supply |-> unit_copy.supply]]

\* the loader's records if the mastery life bonus were written to the
\* loader's unit instead of being kept in a local
V24_loader_after_in_place(l, cfg, unit_id, apply_mastery) ==
    IF /\ apply_mastery
       /\ unit_id \in DOMAIN l.units
       /\ l.units[unit_id].commander = "Swann"
    THEN [l EXCEPT !.units[unit_id].life = RMul(@, Frac(13, 10))]
    ELSE l

\* the loader's records once calculate_cev has run: every assignment of the
\* handler is to a local or to unit_copy, none to a loader record
V24_loader_after(l, cfg, unit_id, apply_mastery) == l

-----------------------------------------------------------------------------
(* data/models.py records, as EnhancedCEVCalculator receives them.         *)
(* Commander names stand for the Chinese names of the data files.          *)

Weapon(weapon_name, weapon_type, base_damage, attack_count, attack_interval, range, bonus_damage, splash_type, splash_params) ==
    [weapon_name |-> weapon_name, weapon_type |-> weapon_type,
     base_damage |-> base_damage, attack_count |-> attack_count,
     attack_interval |-> attack_interval, range |-> range,
     bonus_damage |-> bonus_damage, splash_type |-> splash_type,
     splash_params |-> splash_params]

Ability(name, type, cooldown, damage, heal, buff) ==
    [name |-> name, type |-> type, cost |-> [cooldown |-> cooldown],
     effect |-> [damage |-> damage, heal |-> heal, buff |-> buff]]

UnitMode(mode_name, stat_modifiers, weapon_config) ==
    [mode_name |-> mode_name, stat_modifiers |-> stat_modifiers,
     weapon_config |-> weapon_config]

Unit(english_id, commander, mineral_cost, gas_cost, supply_cost, hp, shields, armor, collision_radius, movement_speed, is_flying, attributes, abilities, weapons, modes) ==
    [english_id |-> english_id, commander |-> commander,
     mineral_cost |-> mineral_cost, gas_cost |-> gas_cost,
     supply_cost |-> supply_cost, hp |-> hp, shields |-> shields,
     armor |-> armor, collision_radius |-> collision_radius,
     movement_speed |-> movement_speed, is_flying |-> is_flying,
     attributes |-> attributes, abilities |-> abilities, weapons |-> weapons,
     modes |-> modes]

CommanderConfig(name, population_cap, modifiers) ==
    [name |-> name, population_cap |-> population_cap, modifiers |-> modifiers]

\* AdvancedDataLoader._create_default_commander_configs
DefaultCommanderConfigs ==
    [c \in {"Raynor", "Kerrigan", "Artanis", "NovaTerra", "Tychus", "Alarak"} |->
       CASE c = "Raynor" ->
              CommanderConfig(c, 200, [k \in {"hp", "damage"} |-> R(1)])
         [] c = "Kerrigan" ->
              CommanderConfig(c, 200, [k \in {"hp", "damage"} |-> Frac(11, 10)])
         [] c = "Artanis" ->
              CommanderConfig(c, 200,
                  [k \in {"shields", "damage"} |->
                     IF k = "shields" THEN Frac(6, 5) ELSE R(1)])
         [] c = "NovaTerra" ->
              CommanderConfig(c, 100,
                  [k \in {"hp", "damage"} |->
                     IF k = "hp" THEN Frac(3, 2) ELSE R(2)])
         [] c = "Tychus" ->
              CommanderConfig(c, 100,
                  [k \in {"hp", "damage"} |->
                     IF k = "hp" THEN R(2) ELSE Frac(3, 2)])
         [] c = "Alarak" ->
              CommanderConfig(c, 200,
                  [k \in {"hp", "damage"} |->
                     IF k = "hp" THEN Frac(11, 10) ELSE Frac(6, 5)])]

UnitDatabase == [commanders |-> DefaultCommanderConfigs]

SplashParams == [radius |-> <<R(1)>>, damage |-> <<R(1)>>]

GaussRifle ==
    Weapon("Gauss Rifle", "both", R(6), 1, R(1), R(5), EmptyDict, "none", None)

\* the units a caller hands to EnhancedCEVCalculator.calculate_cev
EnhancedUnits ==
    [u \in {"Marine", "SiegeTank", "Stalker", "RaidLiberator", "Broodling",
            "Orphan", "Medic"} |->
       CASE u = "Marine" ->
              Unit(u, "Raynor", 50, 0, R(1), 45, 0, 0, Frac(1, 2), R(3), FALSE,
                   {"Light", "Biological"},
                   <<Ability("Stimpack", "passive", R(0), R(0), R(0),
                             [k \in {"attack_speed"} |-> Frac(1, 2)])>>,
                   <<GaussRifle>>, <<>>)
         [] u = "SiegeTank" ->
              Unit(u, "Raynor", 150, 125, R(3), 160, 0, 1, R(1), R(3), FALSE,
                   {"Armored", "Mechanical"},
                   <<Ability("SiegeMode", "toggle", R(0), R(0), R(0), EmptyDict)>>,
                   <<Weapon("Cannon", "ground", R(15), 1, R(1), R(7),
                            [a \in {"Armored"} |-> R(10)], "none", None),
                     Weapon("Shock", "ground", R(40), 1, R(3), R(13),
                            [a \in {"Armored"} |-> R(30)], "circular",
                            SplashParams)>>,
                   <<UnitMode("tank", EmptyDict, "Cannon"),
                     UnitMode("siege",
                              [k \in {"damage", "movement_speed"} |->
                                 IF k = "damage" THEN Frac(1, 2) ELSE R(0)],
                              "Shock")>>)
         [] u = "Stalker" ->
              Unit(u, "Artanis", 125, 50, R(2), 80, 80, 1, Frac(1, 2), R(3),
                   FALSE, {"Armored", "Mechanical"},
                   <<Ability("Blink", "active", R(5), R(10), R(0), EmptyDict)>>,
                   <<Weapon("Disruptors", "both", R(10), 1, R(1), R(6),
                            [a \in {"Armored"} |-> R(4)], "none", None)>>,
                   <<>>)
         [] u = "RaidLiberator" ->
              Unit(u, "NovaTerra", 375, 375, R(3), 180, 0, 0, None, R(3), TRUE,
                   {"Armored", "Mechanical"}, <<>>,
                   <<Weapon("Concord", "ground", R(85), 1, R(2), R(10),
                            EmptyDict, "none", None)>>,
                   <<UnitMode("AG", EmptyDict, "Laser")>>)
         [] u = "Broodling" ->
              \* a free unit
              Unit(u, "Kerrigan", 0, 0, R(0), 20, 0, 0, Frac(1, 2), R(3),
                   FALSE, {"Light", "Biological"}, <<>>,
                   <<Weapon("Claws", "ground", R(4), 1, R(1), R(1), EmptyDict,
                            "none", None)>>,
                   <<>>)
         [] u = "Orphan" ->
              Unit(u, "Unknown", 50, 0, R(1), 45, 0, 0, Frac(1, 2), R(3), FALSE,
                   {"Light", "Biological"}, <<>>, <<GaussRifle>>, <<>>)
         [] u = "Medic" ->
              Unit(u, "Raynor", 75, 50, R(1), 60, 0, 1, Frac(1, 2), R(3), FALSE,
                   {"Light", "Biological"},
                   <<Ability("Heal", "active", R(0), R(0), R(9), EmptyDict)>>,
                   <<>>, <<>>)]

-----------------------------------------------------------------------------
(* EnhancedCEVCalculator *)

\* 1 / (1 + exp(-0.00125 * (t - 300))) to three decimals
calculate_lambda(time_seconds) ==
    CASE time_seconds = 0 -> Frac(407, 1000)
      [] time_seconds = 300 -> Frac(1, 2)
      [] time_seconds = 600 -> Frac(593, 1000)

\* the gas left out of the effective cost
Enh_calculate_effective_cost_minerals(unit, lambda_value) ==
    RAdd(R(unit.mineral_cost),
         RMul(RMul(unit.supply_cost, R(20)), lambda_value))

Enh_calculate_effective_cost(unit, lambda_value) ==
    LET resource_cost == RAdd(R(unit.mineral_cost),
                              RMul(Frac(5, 2), R(unit.gas_cost)))
        supply_pressure == RMul(RMul(unit.supply_cost, R(20)), lambda_value)
    IN  RAdd(resource_cost, supply_pressure)

\* the armor left out of the effective HP
Enh_calculate_effective_hp_unarmored(unit, commander_config) ==
    LET shield_regen_rate ==
          IF unit.shields > 0 /\ unit.attributes \cap {"Psionic", "Mechanical"} # {}
          THEN R(2) ELSE R(0)
        effective_hp ==
          RAdd(R(unit.hp), RAdd(R(unit.shields), RMul(shield_regen_rate, R(10))))
    IN  IF commander_config # None /\ "hp" \in DOMAIN commander_config.modifiers
        THEN RMul(effective_hp, commander_config.modifiers["hp"])
        ELSE effective_hp

Enh_calculate_effective_hp(unit, commander_config) ==
    LET hp_armor_factor ==
          IF unit.armor > 0
          THEN RDiv(R(1), RSub(R(1), Frac(unit.armor, unit.armor + 10)))
          ELSE R(1)
        effective_hp_part == RMul(R(unit.hp), hp_armor_factor)
        shield_regen_rate ==
          IF unit.shields > 0 /\ unit.attributes \cap {"Psionic", "Mechanical"} # {}
          THEN R(2) ELSE R(0)
        effective_shield_part ==
          RAdd(R(unit.shields), RMul(shield_regen_rate, R(10)))
        effective_hp == RAdd(effective_hp_part, effective_shield_part)
    IN  IF commander_config # None /\ "hp" \in DOMAIN commander_config.modifiers
        THEN RMul(effective_hp, commander_config.modifiers["hp"])
        ELSE effective_hp

\* `mode.weapon_config in w.weapon_name`
SubstringOf(a, b) == a = "" \/ a = b

Select(seq, Test(_)) == SelectSeq(seq, Test)

Enh_active_weapons(unit, mode) ==
    IF mode # None THEN
        LET Matches(w) == SubstringOf(mode.weapon_config, w.weapon_name)
            active == Select(unit.weapons, Matches)
        IN  IF active = <<>> THEN unit.weapons ELSE active
    ELSE unit.weapons

Weapon_dps(weapon) ==
    RDiv(RMul(weapon.base_damage, R(weapon.attack_count)),
         weapon.attack_interval)

RECURSIVE BonusMultiplier(_, _, _)
BonusMultiplier(weapon, target_attributes, i) ==
    IF i > Len(target_attributes) THEN R(1)
    ELSE RAdd(IF target_attributes[i] \in DOMAIN weapon.bonus_damage
              THEN RDiv(weapon.bonus_damage[target_attributes[i]],
                        weapon.base_damage)
              ELSE R(0),
              BonusMultiplier(weapon, target_attributes, i + 1))

Enh_weapon_dps(weapon, target_attributes) ==
    LET base_dps == Weapon_dps(weapon)
        withBonus == IF target_attributes # <<>>
                     THEN RMul(base_dps,
                               BonusMultiplier(weapon, target_attributes, 1))
                     ELSE base_dps
    IN  IF weapon.splash_type # "none" /\ weapon.splash_params # None
        THEN RMul(withBonus, Frac(6, 5))
        ELSE withBonus

Enh_weapon_error(weapon, target_attributes) ==
    IF weapon.attack_interval.n = 0 THEN "ZeroDivisionError"
    ELSE IF weapon.base_damage.n = 0
            /\ \E i \in DOMAIN target_attributes :
                 target_attributes[i] \in DOMAIN weapon.bonus_damage
    THEN "ZeroDivisionError"
    ELSE ""

RECURSIVE SumDps(_, _, _)
SumDps(weapons, target_attributes, i) ==
    IF i > Len(weapons) THEN R(0)
    ELSE RAdd(Enh_weapon_dps(weapons[i], target_attributes),
              SumDps(weapons, target_attributes, i + 1))

Enh_dps_error(unit, target_attributes, mode) ==
    IF \E i \in DOMAIN Enh_active_weapons(unit, mode) :
         Enh_weapon_error(Enh_active_weapons(unit, mode)[i], target_attributes) # ""
    THEN "ZeroDivisionError"
    ELSE ""

Enh_calculate_effective_dps(unit, target_attributes, mode, commander_config) ==
    IF unit.weapons = <<>> THEN R(0)
    ELSE LET total == SumDps(Enh_active_weapons(unit, mode), target_attributes, 1)
             withCommander ==
               IF commander_config # None
                  /\ "damage" \in DOMAIN commander_config.modifiers
               THEN RMul(total, commander_config.modifiers["damage"])
               ELSE total
         IN  IF mode # None /\ "damage" \in DOMAIN mode.stat_modifiers
             THEN RMul(withCommander, RAdd(R(1), mode.stat_modifiers["damage"]))
             ELSE withCommander

BuffValue(buff) ==
    LET Term(stat, k) == IF stat \in DOMAIN buff THEN RMul(k, buff[stat])
                         ELSE R(0)
    IN  RAdd(RAdd(Term("attack_speed", R(10)), Term("movement_speed", R(5))),
             Term("damage_reduction", Frac(1, 10)))

\* the loop of calculate_special_abilities_value from ability i on; cooldown
\* is the local of that name, None while no damage ability has bound it
RECURSIVE AbilityLoop(_, _, _, _)
AbilityLoop(abilities, i, ability_value, cooldown) ==
    IF i > Len(abilities) THEN [error |-> "", value |-> ability_value]
    ELSE
      LET ability == abilities[i]
          own == IF RLt(R(0), ability.cost.cooldown) THEN ability.cost.cooldown
                 ELSE R(10)
          hasDamage == RLt(R(0), ability.effect.damage)
          hasHeal == RLt(R(0), ability.effect.heal)
          cd == IF hasDamage THEN own ELSE cooldown
          afterDamage == IF hasDamage
                         THEN RAdd(ability_value, RDiv(ability.effect.damage, own))
                         ELSE ability_value
      IN  IF ability.type = "active" THEN
            IF hasHeal /\ cd = None
            THEN [error |-> "UnboundLocalError", value |-> afterDamage]
            ELSE AbilityLoop(abilities, i + 1,
                     IF hasHeal
                     THEN RAdd(afterDamage,
                               RMul(RDiv(ability.effect.heal, cd), Frac(1, 2)))
                     ELSE afterDamage,
                     cd)
          ELSE IF ability.type = "passive" THEN
            AbilityLoop(abilities, i + 1,
                        RAdd(ability_value, BuffValue(ability.effect.buff)),
                        cooldown)
          ELSE IF ability.type = "toggle" THEN
            AbilityLoop(abilities, i + 1, RAdd(ability_value, R(10)), cooldown)
          ELSE AbilityLoop(abilities, i + 1, ability_value, cooldown)

calculate_special_abilities_value(unit) ==
    AbilityLoop(unit.abilities, 1, R(0), None)

calculate_synergy_bonus(n_support, n_ally) ==
    LET support_bonus == RMin(RMul(R(n_support), Frac(1, 20)), Frac(1, 2))
        ally_bonus == RMin(RMul(R(n_ally), Frac(1, 100)), Frac(3, 10))
    IN  RMul(RAdd(R(1), support_bonus), RAdd(R(1), ally_bonus))

get_mode(unit, mode_name) ==
    LET hits == {i \in DOMAIN unit.modes : unit.modes[i].mode_name = mode_name}
    IN  IF hits = {} THEN None ELSE unit.modes[Lowest(hits)]

RECURSIVE MaxRange(_, _)
MaxRange(weapons, i) ==
    IF i = Len(weapons) THEN weapons[i].range
    ELSE LET rest == MaxRange(weapons, i + 1)
         IN  IF RLt(weapons[i].range, rest) THEN rest ELSE weapons[i].range

calculate_range_score(unit) ==
    IF unit.weapons = <<>> THEN R(0)
    ELSE LET max_range == MaxRange(unit.weapons, 1)
             effective_range ==
               IF unit.collision_radius # None /\ unit.collision_radius.n # 0
               THEN RSub(max_range, unit.collision_radius)
               ELSE max_range
         IN  RMin(RDiv(effective_range, R(15)), R(1))

calculate_versatility_score(unit) ==
    LET ground == \E i \in DOMAIN unit.weapons :
                     unit.weapons[i].weapon_type \in {"ground", "both"}
        air == \E i \in DOMAIN unit.weapons :
                  unit.weapons[i].weapon_type \in {"air", "both"}
        attack == IF ground /\ air THEN Frac(3, 10)
                  ELSE IF ground \/ air THEN Frac(1, 10) ELSE R(0)
        special == RMin(RMul(R(Len(unit.abilities)), Frac(1, 10)), Frac(3, 10))
        modes == IF unit.modes # <<>> THEN Frac(1, 5) ELSE R(0)
        flying == IF unit.is_flying THEN Frac(1, 5) ELSE R(0)
    IN  RAdd(RAdd(attack, special), RAdd(modes, flying))

\* x / y if y > 0 else float('inf')
OrInf(x, y) == IF RLt(R(0), y) THEN RDiv(x, y) ELSE PosInf

Enh_calculate_cev(db, unit, time_seconds, target_attributes, mode_name, n_support, n_ally) ==
    LET commander_config == Get(db.commanders, unit.commander, None)
        mode == IF mode_name # NoneStr /\ mode_name # ""
                THEN get_mode(unit, mode_name) ELSE None
        base_lambda == calculate_lambda(time_seconds)
        lambda_max == IF commander_config # None
                         /\ commander_config.population_cap = 100
                      THEN R(2) ELSE R(1)
        lambda_value == RMul(base_lambda, lambda_max)
        effective_cost == Enh_calculate_effective_cost(unit, lambda_value)
        effective_hp == Enh_calculate_effective_hp(unit, commander_config)
        effective_dps == Enh_calculate_effective_dps(unit, target_attributes,
                                                     mode, commander_config)
        abilities == calculate_special_abilities_value(unit)
        ability_value == abilities.value
        total_dps == RAdd(effective_dps, ability_value)
        synergy_bonus == calculate_synergy_bonus(n_support, n_ally)
    IN  IF unit.weapons # <<>> /\ Enh_dps_error(unit, target_attributes, mode) # ""
        THEN Raised(Enh_dps_error(unit, target_attributes, mode),
                    "effective_dps", <<"effective_cost", "effective_hp">>)
        ELSE IF abilities.error # ""
        THEN Raised(abilities.error, "ability_value",
                    <<"effective_cost", "effective_hp", "effective_dps">>)
        ELSE [status |-> "ok",
              steps |-> <<"effective_cost", "effective_hp", "effective_dps",
                          "ability_value", "synergy_bonus", "cev">>,
              cev |-> OrInf(RMul(RMul(total_dps, effective_hp), synergy_bonus),
                            effective_cost),
              effective_cost |-> effective_cost,
              effective_hp |-> effective_hp,
              effective_dps |-> total_dps,
              base_dps |-> effective_dps,
              ability_value |-> ability_value,
              lambda |-> lambda_value,
              synergy_bonus |-> synergy_bonus,
              resource_efficiency |-> OrInf(total_dps, effective_cost),
              supply_efficiency |-> OrInf(total_dps, unit.supply_cost),
              survivability |-> OrInf(effective_hp, effective_cost),
              range_score |-> calculate_range_score(unit),
              mobility_score |-> RDiv(unit.movement_speed, R(3)),
              versatility_score |-> calculate_versatility_score(unit)]

-----------------------------------------------------------------------------
(* RefinedCEVCalculator.  Units and weapons are dictionaries; a key a      *)
(* dictionary lacks is absent from the function's domain.                  *)

\* self.commander_traits, the entries the sessions use
commander_traits ==
    [c \in {"Raynor", "Swann", "Nova", "Tychus"} |->
       CASE c = "Raynor" -> [gas_value |-> Frac(5, 2), production |-> R(1)]
         [] c = "Swann" -> [gas_value |-> Frac(5, 2), production |-> Frac(9, 5)]
         [] c = "Nova" -> [gas_value |-> R(1), production |-> Frac(6, 5)]
         [] c = "Tychus" -> [gas_value |-> Frac(5, 2), production |-> Frac(7, 10)]]

DefaultTraits == [gas_value |-> Frac(5, 2), production |-> R(1)]

rho == 25
lambda_mid == Frac(593, 1000)

Ref_calculate_effective_cost(unit_data, commander) ==
    LET traits == Get(commander_traits, commander, DefaultTraits)
        mineral == Get(unit_data, "mineral_cost", R(0))
        gas == Get(unit_data, "gas_cost", R(0))
        supply == Get(unit_data, "supply_cost", R(0))
        resource_cost == RAdd(mineral, RMul(traits.gas_value, gas))
        population_pressure == RMul(RMul(supply, R(rho)), lambda_mid)
    IN  RAdd(resource_cost, population_pressure)

\* calculate_effective_hp as calculate_cev calls it, without masteries
Ref_calculate_effective_hp(unit_data) ==
    LET hp == Get(unit_data, "hp", R(0))
        shields == Get(unit_data, "shields", R(0))
        armor == Get(unit_data, "armor", R(0))
        armor_factor == RAdd(R(1), RDiv(armor, R(10)))
        base == RAdd(RMul(hp, armor_factor), shields)
        withRegen == IF RLt(R(0), shields) THEN RAdd(base, R(40)) ELSE base
        unit_id == Get(unit_data, "english_id", "")
    IN  IF unit_id = "RaidLiberator" /\ Get(unit_data, "commander", "") = "Nova"
        THEN RMul(withRegen, Frac(13, 10))
        ELSE IF unit_id = "SiegeTank_Swann" THEN RAdd(withRegen, R(20))
        ELSE withRegen

Ref_calculate_range_factor(weapon_range, collision_radius) ==
    Sqrt(RDiv(weapon_range, collision_radius))

calculate_collision_factor(collision_radius) ==
    RDiv(R(1), RAdd(R(1), RMul(collision_radius, Frac(1, 5))))

get_operation_factor(unit_data) ==
    LET unit_id == Get(unit_data, "english_id", "")
    IN  IF unit_id \in {"RaidLiberator", "Liberator"} THEN Frac(7, 10)
        ELSE IF unit_id \in {"SiegeTank_Swann", "SiegeTank_Raynor", "Impaler"}
        THEN Frac(9, 10)
        ELSE IF Get(unit_data, "can_move_attack", FALSE) THEN Frac(11, 10)
        ELSE R(1)

get_aoe_factor(unit_id) ==
    CASE unit_id \in {"SiegeTank_Swann", "SiegeTank_Raynor"} -> Frac(7, 5)
      [] unit_id = "Ultralisk" -> Frac(13, 10)
      [] unit_id = "Colossus" -> Frac(3, 2)
      [] OTHER -> R(1)

\* sorted(self.overkill_thresholds.values(), reverse=True)
SortedOverkillThresholds ==
    << <<R(200), Frac(4, 5)>>, <<R(150), Frac(17, 20)>>,
       <<R(100), Frac(9, 10)>>, <<R(50), R(1)>> >>

get_overkill_factor(damage, target_avg_hp) ==
    IF RLe(damage, RMul(target_avg_hp, Frac(1, 2))) THEN R(1)
    ELSE FirstReached(SortedOverkillThresholds, damage, 1)

get_synergy_factor(unit_data) ==
    LET unit_id == Get(unit_data, "english_id", "")
    IN  IF unit_id \in {"SiegeTank_Swann", "Impaler", "Ultralisk"}
        THEN Frac(11, 10)
        ELSE IF unit_id \in {"Wrathwalker", "RaidLiberator", "Marine"}
        THEN Frac(4, 5)
        ELSE R(1)

\* bonus_damage holds the dictionary json.loads yields, or "invalid" for a
\* string json.loads rejects (the except clause then skips the bonus)
Ref_calculate_dps(weapon_data, vs_attribute) ==
    LET base_damage == Get(weapon_data, "base_damage", R(0))
        attack_count == Get(weapon_data, "attack_count", R(1))
        attack_interval == Get(weapon_data, "attack_interval", R(1))
        damage_per_attack == RMul(base_damage, attack_count)
        bonus_dict == Get(weapon_data, "bonus_damage", EmptyDict)
        withBonus ==
          IF vs_attribute # NoneStr /\ bonus_dict # EmptyDict
             /\ bonus_dict # [invalid |-> TRUE]
             /\ vs_attribute \in DOMAIN bonus_dict
          THEN RAdd(damage_per_attack,
                    RMul(bonus_dict[vs_attribute], attack_count))
          ELSE damage_per_attack
    IN  RDiv(withBonus, attack_interval)

DefaultScenario ==
    [target_avg_hp |-> R(100), target_count |-> 5, vs_attribute |-> NoneStr]

\* numpy division of a float64 numerator: inf or nan instead of an exception
NumpyDiv(x, y) ==
    IF y.n # 0 THEN RDiv(x, y)
    ELSE IF x.n = 0 THEN NaN
    ELSE IF x.n > 0 THEN PosInf ELSE NegInf

Ref_calculate_cev(unit_data, weapon_data, commander, scenario) ==
    LET scen == IF scenario = None THEN DefaultScenario ELSE scenario
        traits == Get(commander_traits, commander, DefaultTraits)
        effective_cost == Ref_calculate_effective_cost(unit_data, commander)
        effective_hp == Ref_calculate_effective_hp(unit_data)
        base_dps == Ref_calculate_dps(weapon_data,
                                      Get(scen, "vs_attribute", NoneStr))
        unit_id == Get(unit_data, "english_id", "")
        aoe_factor == get_aoe_factor(unit_id)
        with_aoe ==
          IF RLt(R(1), aoe_factor) /\ scen.target_count > 1
          THEN RMul(base_dps,
                    RMin(aoe_factor,
                         RAdd(R(1), RMul(R(scen.target_count - 1), Frac(1, 5)))))
          ELSE base_dps
        damage_per_shot == Get(weapon_data, "base_damage", R(0))
        overkill_factor == get_overkill_factor(damage_per_shot,
                                               scen.target_avg_hp)
        effective_dps == RMul(with_aoe, overkill_factor)
        weapon_range == Get(weapon_data, "range", R(6))
        collision_radius == Get(unit_data, "collision_radius", Frac(3, 4))
        range_factor == Ref_calculate_range_factor(weapon_range, collision_radius)
        collision_factor == calculate_collision_factor(collision_radius)
        operation_factor == get_operation_factor(unit_data)
        synergy_factor == get_synergy_factor(unit_data)
        production_factor == traits.production
        numerator ==
          RMul(RMul(RMul(RMul(RMul(RMul(effective_dps, effective_hp),
               range_factor), collision_factor), operation_factor),
               synergy_factor), production_factor)
    IN  IF Get(weapon_data, "attack_interval", R(1)).n = 0
        THEN Raised("ZeroDivisionError", "base_dps",
                    <<"effective_cost", "effective_hp">>)
        ELSE IF RLt(R(1), aoe_factor) /\ "target_count" \notin DOMAIN scen
        THEN Raised("KeyError", "target_count",
                    <<"effective_cost", "effective_hp", "base_dps">>)
        ELSE IF "target_avg_hp" \notin DOMAIN scen
        THEN Raised("KeyError", "target_avg_hp",
                    <<"effective_cost", "effective_hp", "base_dps">>)
        ELSE IF collision_radius.n = 0
        THEN Raised("ZeroDivisionError", "range_factor",
                    <<"effective_cost", "effective_hp", "base_dps",
                      "effective_dps">>)
        ELSE [status |-> "ok",
              steps |-> <<"effective_cost", "effective_hp", "base_dps",
                          "effective_dps", "range_factor", "cev">>,
              cev |-> NumpyDiv(numerator, effective_cost),
              effective_cost |-> effective_cost,
              effective_hp |-> effective_hp,
              base_dps |-> base_dps,
              effective_dps |-> effective_dps,
              factors |->
                [range |-> range_factor, collision |-> collision_factor,
                 operation |-> operation_factor, synergy |-> synergy_factor,
                 production |-> production_factor, aoe |-> aoe_factor,
                 overkill |-> overkill_factor]]

-----------------------------------------------------------------------------
(* BenchmarkSystemV2: the reference population and evaluate_new_unit.      *)
(* The metrics of the rows are whole numbers.                              *)

Row(english_id, game_phase, cev, effective_dps, effective_hp, effective_cost) ==
    [english_id |-> english_id, unit_name |-> english_id,
     commander |-> "Raynor", game_phase |-> game_phase, cev |-> cev,
     effective_dps |-> effective_dps, effective_hp |-> effective_hp,
     effective_cost |-> effective_cost]

features == <<"cev", "effective_dps", "effective_hp", "effective_cost">>

top_n == 5

\* self.results_df[self.results_df['game_phase'] == 'mid_game']
MidGame(df) ==
    LET IsMid(row) == row.game_phase = "mid_game" IN SelectSeq(df, IsMid)

\* a count that takes ties into the share: <= in place of <
RECURSIVE CountLessOrEqual(_, _, _, _)
CountLessOrEqual(df, metric, value, i) ==
    IF i > Len(df) THEN 0
    ELSE (IF df[i][metric] <= value THEN 1 ELSE 0)
         + CountLessOrEqual(df, metric, value, i + 1)

RECURSIVE CountLess(_, _, _, _)
CountLess(df, metric, value, i) ==
    IF i > Len(df) THEN 0
    ELSE (IF df[i][metric] < value THEN 1 ELSE 0)
         + CountLess(df, metric, value, i + 1)

\* float((df[metric] < value).mean() * 100); the mean of no rows is NaN
percentile(df, metric, value) ==
    IF Len(df) = 0 THEN NaN
    ELSE RMul(Frac(CountLess(df, metric, value, 1), Len(df)), R(100))

RECURSIVE SumSquares(_, _, _)
SumSquares(new_unit, unit, i) ==
    IF i > Len(features) THEN 0
    ELSE LET diff == Get(new_unit, features[i], 0) - unit[features[i]]
         IN  diff * diff + SumSquares(new_unit, unit, i + 1)

\* x ** 0.5, kept exactly as the number whose square is x
Root(x) == [root_of |-> x]
RootLt(a, b) == a.root_of < b.root_of

Distance(new_unit, unit) == Root(SumSquares(new_unit, unit, 1))

SimilarEntry(new_unit, unit) ==
    [english_id |-> unit.english_id, unit_name |-> unit.unit_name,
     commander |-> unit.commander, distance |-> Distance(new_unit, unit),
     cev |-> unit.cev]

\* the places a sort with reverse=True gives: the farthest entry first
SortPlaceReversed(distances, i) ==
    1 + Cardinality({j \in DOMAIN distances :
                       \/ RootLt(distances[i].distance, distances[j].distance)
                       \/ /\ distances[j].distance = distances[i].distance
                          /\ j < i})

\* place of entry i in sorted(distances, key=distance): the sort is stable
SortPlace(distances, i) ==
    1 + Cardinality({j \in DOMAIN distances :
                       \/ RootLt(distances[j].distance, distances[i].distance)
                       \/ /\ distances[j].distance = distances[i].distance
                          /\ j < i})

sorted(distances) ==
    [k \in DOMAIN distances |->
       distances[CHOOSE i \in DOMAIN distances : SortPlace(distances, i) = k]]

Head_n(seq, n) == SubSeq(seq, 1, IF Len(seq) < n THEN Len(seq) ELSE n)

find_similar_units(new_unit, df) ==
    LET distances == [i \in DOMAIN df |-> SimilarEntry(new_unit, df[i])]
    IN  Head_n(sorted(distances), top_n)

RECURSIVE SumCev(_, _)
SumCev(df, i) == IF i > Len(df) THEN 0 ELSE df[i].cev + SumCev(df, i + 1)

RECURSIVE SumCevSq(_, _)
SumCevSq(df, i) ==
    IF i > Len(df) THEN 0 ELSE df[i].cev * df[i].cev + SumCevSq(df, i + 1)

\* df['cev'].mean()
cev_mean(df) == IF Len(df) = 0 THEN NaN ELSE Frac(SumCev(df, 1), Len(df))

\* the square of df['cev'].std(): pandas divides by N - 1
cev_var(df) ==
    LET n == Len(df)
    IN  IF n < 2 THEN NaN
        ELSE Frac(n * SumCevSq(df, 1) - SumCev(df, 1) * SumCev(df, 1),
                  n * (n - 1))

\* (new_unit['cev'] - cev_mean) / cev_std as its sign and its square
Deviation(cev, mean, var) ==
    IF IsNaN(mean) \/ IsNaN(var) THEN [sign |-> 0, sq |-> NaN]
    ELSE LET diff == RSub(R(cev), mean)
         IN  [sign |-> IF var.n = 0 /\ diff.n = 0 THEN 0 ELSE Sign(diff.n),
              sq |-> NumpyDiv(RMul(diff, diff), var)]

\* deviation > k and deviation < -k for k >= 0; every comparison with NaN
\* is false
DevAbove(dev, k) ==
    dev.sign > 0 /\ ~IsNaN(dev.sq) /\ (dev.sq = PosInf \/ RLt(R(k * k), dev.sq))
DevBelow(dev, k) ==
    dev.sign < 0 /\ ~IsNaN(dev.sq) /\ (dev.sq = PosInf \/ RLt(R(k * k), dev.sq))
\* abs(deviation) < k
DevWithin(dev, k) == IsFinite(dev.sq) /\ RLt(dev.sq, R(k * k))

\* the statuses stand for the Chinese labels of the source, in its order
balance_status(deviation) ==
    IF DevWithin(deviation, 1) THEN "balanced"
    ELSE IF DevAbove(deviation, 2) THEN "overpowered"
    ELSE IF DevAbove(deviation, 1) THEN "slightly_strong"
    ELSE IF DevBelow(deviation, 2) THEN "underpowered"
    ELSE "slightly_weak"

\* the fixed recommendation text of each status, by a short name
recommendation(status) ==
    CASE status = "balanced" -> "no_change"
      [] status = "overpowered" -> "lower_stats_or_raise_cost"
      [] status = "slightly_strong" -> "slightly_lower_stats_or_raise_cost"
      [] status = "underpowered" -> "raise_stats_or_lower_cost"
      [] status = "slightly_weak" -> "slightly_raise_stats_or_lower_cost"

assess_balance(new_unit, df) ==
    LET deviation == Deviation(new_unit["cev"], cev_mean(df), cev_var(df))
    IN  [status |-> balance_status(deviation), deviation |-> deviation,
         recommendation |-> recommendation(balance_status(deviation))]

evaluate_new_unit(df_all, new_unit_stats) ==
    LET df_mid == MidGame(df_all)
    IN  IF "cev" \notin DOMAIN new_unit_stats
        THEN Raised("KeyError", "cev", <<>>)
        ELSE IF "effective_dps" \notin DOMAIN new_unit_stats
        THEN Raised("KeyError", "effective_dps", <<"cev_percentile">>)
        ELSE IF "effective_hp" \notin DOMAIN new_unit_stats
        THEN Raised("KeyError", "effective_hp",
                    <<"cev_percentile", "dps_percentile">>)
        ELSE [status |-> "ok",
              cev_percentile |-> percentile(df_mid, "cev", new_unit_stats["cev"]),
              dps_percentile |->
                percentile(df_mid, "effective_dps",
                           new_unit_stats["effective_dps"]),
              survivability_percentile |->
                percentile(df_mid, "effective_hp",
                           new_unit_stats["effective_hp"]),
              similar_units |-> find_similar_units(new_unit_stats, df_mid),
              balance_assessment |-> assess_balance(new_unit_stats, df_mid)]

\* results_df if the mid_game filter were assigned back to self.results_df
results_df_filtered(df_all, new_unit_stats) == MidGame(df_all)

\* self.results_df once evaluate_new_unit has run: the handler works on the
\* copy df_mid and assigns to no attribute of self
results_df_after(df_all, new_unit_stats) == df_all

-----------------------------------------------------------------------------
(* Overlays.  An overlay call works on a store of two objects: "in" is the *)
(* object the caller passed, "copy" the object the call created, if any.   *)
(* A handle is the store together with the reference a local is bound to.  *)

Alias(h, ref) == [heap |-> h, ref |-> ref]

\* dict.copy()
ShallowCopy(h, ref) == [heap |-> [h EXCEPT !.copy = h[ref]], ref |-> "copy"]

Returned(handle) == [status |-> "ok", ref |-> handle.ref]

\* int(x) for x >= 0
TruncInt(a) == RFloor(a)

\* CommanderConfig.apply_modifier
apply_modifier(h, cfg) ==
    LET modified_unit == Alias(h, "in")
        ref == modified_unit.ref
        h1 == IF "damage" \in DOMAIN cfg.modifiers
              THEN [h EXCEPT ![ref].weapons =
                      [i \in DOMAIN @ |->
                         [@[i] EXCEPT !.base_damage =
                                         RMul(@, cfg.modifiers["damage"])]]]
              ELSE h
        h2 == IF "hp" \in DOMAIN cfg.modifiers
              THEN [h1 EXCEPT ![ref].hp =
                      TruncInt(RMul(R(@), cfg.modifiers["hp"]))]
              ELSE h1
    IN  [heap |-> h2, result |-> Returned(modified_unit)]

\* MasteryConfig.COMMANDER_MASTERIES
COMMANDER_MASTERIES ==
    [c \in {"Nova", "Alarak", "Swann", "Dehaka", "Artanis"} |->
       CASE c \in {"Nova", "Alarak"} -> [k \in {"attack_speed"} |-> Frac(3, 20)]
         [] c = "Swann" -> [k \in {"mech_hp"} |-> Frac(3, 10)]
         [] c = "Dehaka" -> [k \in {"primal_hp"} |-> Frac(3, 10)]
         [] c = "Artanis" ->
              [k \in {"production_speed", "shield_regen"} |->
                 IF k = "production_speed" THEN Frac(3, 10) ELSE Frac(3, 20)]]

\* MasteryConfig.KEY_TECHNOLOGIES
KEY_TECHNOLOGIES ==
    [u \in {"Wrathwalker", "RaidLiberator", "SiegeTank"} |->
       CASE u = "Wrathwalker" ->
              [t \in {"Sacrifice"} |-> [k \in {"attack_speed"} |-> R(1)]]
         [] u = "RaidLiberator" ->
              [t \in {"AdvancedBallistics"} |-> [k \in {"range"} |-> R(4)]]
         [] u = "SiegeTank" ->
              [t \in {"TungstenSpikes"} |-> [k \in {"damage"} |-> R(30)]]]

\* MasteryConfig.apply_mastery; unit_type is the kind the unit_type string
\* names ("Mechanical", "Primal", ...) or NoneStr
Mastery_apply_mastery(h, commander, unit_type) ==
    LET stats == ShallowCopy(h, "in")
        ref == stats.ref
        h0 == stats.heap
        mastery == COMMANDER_MASTERIES[commander]
        h1 == IF "attack_speed" \in DOMAIN mastery
                 /\ "attack_interval" \in DOMAIN h0[ref]
              THEN [h0 EXCEPT ![ref]["attack_interval"] =
                      RDiv(@, RAdd(R(1), mastery["attack_speed"]))]
              ELSE h0
        swann == commander = "Swann" /\ "mech_hp" \in DOMAIN mastery
                 /\ unit_type = "Mechanical"
        dehaka == commander = "Dehaka" /\ "primal_hp" \in DOMAIN mastery
                  /\ unit_type = "Primal"
        h2 == IF swann
              THEN [h1 EXCEPT ![ref]["hp"] =
                      RMul(@, RAdd(R(1), mastery["mech_hp"]))]
              ELSE h1
        h3 == IF dehaka
              THEN [h2 EXCEPT ![ref]["hp"] =
                      RMul(@, RAdd(R(1), mastery["primal_hp"]))]
              ELSE h2
    IN  IF commander \notin DOMAIN COMMANDER_MASTERIES
        THEN [heap |-> h0, result |-> Returned(stats)]
        ELSE IF (swann \/ dehaka) /\ "hp" \notin DOMAIN h0[ref]
        THEN [heap |-> h1, result |-> Raised("KeyError", "hp", <<>>)]
        ELSE [heap |-> h3, result |-> Returned(stats)]

\* MasteryConfig.apply_technology
Mastery_apply_technology(h, unit_name, tech_name) ==
    LET stats == ShallowCopy(h, "in")
        ref == stats.ref
        h0 == stats.heap
        tech == KEY_TECHNOLOGIES[unit_name][tech_name]
        h1 == IF "attack_speed" \in DOMAIN tech
                 /\ "attack_interval" \in DOMAIN h0[ref]
              THEN [h0 EXCEPT ![ref]["attack_interval"] =
                      RDiv(@, RAdd(R(1), tech["attack_speed"]))]
              ELSE h0
        h2 == IF "damage" \in DOMAIN tech /\ "base_damage" \in DOMAIN h0[ref]
              THEN [h1 EXCEPT ![ref]["base_damage"] = RAdd(@, tech["damage"])]
              ELSE h1
        h3 == IF "range" \in DOMAIN tech /\ "range" \in DOMAIN h0[ref]
              THEN [h2 EXCEPT ![ref]["range"] = RAdd(@, tech["range"])]
              ELSE h2
    IN  IF unit_name \notin DOMAIN KEY_TECHNOLOGIES
        THEN [heap |-> h0, result |-> Returned(stats)]
        ELSE IF tech_name \notin DOMAIN KEY_TECHNOLOGIES[unit_name]
        THEN [heap |-> h0, result |-> Returned(stats)]
        ELSE [heap |-> h3, result |-> Returned(stats)]

\* UnitMode.apply_modifiers
apply_modifiers(h, mode) ==
    LET modified_stats == ShallowCopy(h, "in")
        ref == modified_stats.ref
        h0 == modified_stats.heap
        h1 == [h0 EXCEPT ![ref] =
                 [stat \in DOMAIN @ |->
                    IF stat \in DOMAIN mode.stat_modifiers
                    THEN IF mode.stat_modifiers[stat].n = 0 THEN R(0)
                         ELSE RAdd(@[stat], mode.stat_modifiers[stat])
                    ELSE @[stat]]]
    IN  [heap |-> h1, result |-> Returned(modified_stats)]

-----------------------------------------------------------------------------
(* Sessions.  In every session the last call and its outcome are kept in   *)
(* call and result.                                                        *)

\* no experiment directory has been created
NoExperiment == [status |-> "absent"]

NoCall == [op |-> "none"]
NoResult == [status |-> "none"]
NoDatabase == [commanders |-> EmptyDict]
NoHeap == [copy |-> None, in |-> None]

(* CEVCalculatorV24 over a loaded YAMLDataLoader *)

UnitIds == DOMAIN LoadedUnits \cup {"NoSuchUnit"}
WeaponModes == {NoneStr, "AA", "AG", "siege", "bogus"}
Scenarios == {NoneStr, "vs_armored", "vs_light", "vs_bogus"}

InitV24 ==
    /\ loader = YAMLDataLoader
    /\ config \in {CalculationConfig, create_calculation_config}
    /\ database = NoDatabase
    /\ results_df = <<>>
    /\ heap = NoHeap
    /\ before = None
    /\ experiment = NoExperiment
    /\ call = NoCall
    /\ result = NoResult

CalculateCevV24 ==
    \E unit_id \in UnitIds, weapon_mode \in WeaponModes,
       apply_mastery \in BOOLEAN, scenario \in Scenarios :
        /\ call' = [op |-> "V24.calculate_cev", unit_id |-> unit_id,
                    weapon_mode |-> weapon_mode,
                    apply_mastery |-> apply_mastery, scenario |-> scenario]
        /\ result' = V24_calculate_cev(loader, config, unit_id, weapon_mode,
                                       apply_mastery, scenario)
        /\ loader' = V24_loader_after(loader, config, unit_id, apply_mastery)
        /\ UNCHANGED <<experiment, config, database, results_df, heap, before>>

NextV24 == CalculateCevV24

SpecV24 == InitV24 /\ [][NextV24]_vars

(* EnhancedCEVCalculator and RefinedCEVCalculator *)

Times == {300, 600}
TargetAttributes == {<<>>, <<"Armored">>}
ModeNames == {NoneStr, "siege", "bogus"}
\* an army is scored alone or with both support and allied units
SupportCounts == {0, 12}
AllyCounts == {0, 40}

RefinedUnit(english_id, commander, mineral_cost, gas_cost, supply_cost, hp, shields, armor, collision_radius) ==
    [k \in {"english_id", "commander", "mineral_cost", "gas_cost",
            "supply_cost", "hp", "shields", "armor", "collision_radius"} |->
       CASE k = "english_id" -> english_id
         [] k = "commander" -> commander
         [] k = "mineral_cost" -> R(mineral_cost)
         [] k = "gas_cost" -> R(gas_cost)
         [] k = "supply_cost" -> R(supply_cost)
         [] k = "hp" -> R(hp)
         [] k = "shields" -> R(shields)
         [] k = "armor" -> R(armor)
         [] k = "collision_radius" -> collision_radius]

RefinedUnits ==
    {RefinedUnit("Marine", "Raynor", 50, 0, 1, 45, 0, 0, Frac(1, 2)),
     RefinedUnit("SiegeTank_Swann", "Swann", 150, 125, 3, 160, 0, 1, R(1)),
     RefinedUnit("Stalker", "Artanis", 125, 50, 2, 80, 80, 1, Frac(1, 2)),
     RefinedUnit("Broodling", "Kerrigan", 0, 0, 0, 20, 0, 0, Frac(1, 2)),
     RefinedUnit("Banshee", "Raynor", 150, 100, 2, 200, 0, 0, R(0))}

RefinedWeapon(base_damage, attack_count, attack_interval, range, bonus) ==
    [k \in {"base_damage", "attack_count", "attack_interval", "range",
            "bonus_damage"} |->
       CASE k = "base_damage" -> R(base_damage)
         [] k = "attack_count" -> R(attack_count)
         [] k = "attack_interval" -> R(attack_interval)
         [] k = "range" -> R(range)
         [] k = "bonus_damage" -> bonus]

RefinedWeapons ==
    {RefinedWeapon(6, 1, 1, 2, EmptyDict),
     RefinedWeapon(25, 1, 1, 6, EmptyDict),
     RefinedWeapon(40, 2, 3, 9, [a \in {"Armored"} |-> R(30)]),
     RefinedWeapon(160, 1, 2, 8, [invalid |-> TRUE])}

RefinedCommanders == {"Raynor", "Swann", "Unknown"}

\* None, and the COMBAT_SCENARIOS vs_swarm and vs_armored
RefinedScenarios ==
    {None,
     [target_avg_hp |-> R(50), target_count |-> 20],
     [target_avg_hp |-> R(150), target_count |-> 5, vs_attribute |-> "Armored"]}

InitScore ==
    /\ loader = [units |-> EmptyDict, weapons |-> EmptyDict,
                 commanders |-> EmptyDict]
    /\ config = None
    /\ database = UnitDatabase
    /\ results_df = <<>>
    /\ heap = NoHeap
    /\ before = None
    /\ experiment = NoExperiment
    /\ call = NoCall
    /\ result = NoResult

CalculateCevEnhanced ==
    \E u \in DOMAIN EnhancedUnits, time_seconds \in Times,
       target_attributes \in TargetAttributes, mode_name \in ModeNames,
       n_support \in SupportCounts :
      \E n_ally \in {n \in AllyCounts : (n = 0) <=> (n_support = 0)} :
        /\ call' = [op |-> "Enhanced.calculate_cev", unit |-> EnhancedUnits[u],
                    time_seconds |-> time_seconds,
                    target_attributes |-> target_attributes,
                    mode_name |-> mode_name, n_support |-> n_support,
                    n_ally |-> n_ally]
        /\ result' = Enh_calculate_cev(database, EnhancedUnits[u], time_seconds,
                                       target_attributes, mode_name, n_support,
                                       n_ally)
        /\ UNCHANGED <<experiment, loader, config, database, results_df, heap, before>>

CalculateCevRefined ==
    \E unit_data \in RefinedUnits, weapon_data \in RefinedWeapons,
       commander \in RefinedCommanders, scenario \in RefinedScenarios :
        /\ call' = [op |-> "Refined.calculate_cev", unit_data |-> unit_data,
                    weapon_data |-> weapon_data, commander |-> commander,
                    scenario |-> scenario]
        /\ result' = Ref_calculate_cev(unit_data, weapon_data, commander,
                                       scenario)
        /\ UNCHANGED <<experiment, loader, config, database, results_df, heap, before>>

NextScore == CalculateCevEnhanced \/ CalculateCevRefined

SpecScore == InitScore /\ [][NextScore]_vars

(* BenchmarkSystemV2 over a reference population read at construction *)

MaxPop == 6

RowCatalogue ==
    {Row("A", "mid_game", 80, 10, 100, 100),
     Row("B", "mid_game", 100, 20, 120, 150),
     Row("C", "mid_game", 120, 30, 90, 200),
     Row("D", "early_game", 300, 50, 500, 50)}

\* the reference CSV lists its rows by ascending or by descending cev
Ascending(df) == \A i \in 1..(Len(df) - 1) : df[i].cev <= df[i + 1].cev
Descending(df) == \A i \in 1..(Len(df) - 1) : df[i].cev >= df[i + 1].cev

Populations ==
    {df \in UNION {[1..n -> RowCatalogue] : n \in 0..MaxPop} :
       Ascending(df) \/ Descending(df)}

NewUnit(cev, effective_dps, effective_hp, effective_cost) ==
    [k \in {features[i] : i \in DOMAIN features} |->
       CASE k = "cev" -> cev
         [] k = "effective_dps" -> effective_dps
         [] k = "effective_hp" -> effective_hp
         [] k = "effective_cost" -> effective_cost]

Candidates ==
    {NewUnit(100, 20, 120, 150), NewUnit(141, 30, 90, 200),
     NewUnit(60, 5, 50, 80), NewUnit(120, 25, 100, 180),
     NewUnit(140, 40, 130, 150), NewUnit(80, 10, 100, 100),
     [k \in {"cev", "effective_dps", "effective_hp"} |->
        CASE k = "cev" -> 90 [] k = "effective_dps" -> 15
          [] k = "effective_hp" -> 95],
     [k \in {"cev"} |-> 100]}

InitBench ==
    /\ loader = [units |-> EmptyDict, weapons |-> EmptyDict,
                 commanders |-> EmptyDict]
    /\ config = None
    /\ database = NoDatabase
    /\ results_df \in Populations
    /\ heap = NoHeap
    /\ before = None
    /\ experiment = NoExperiment
    /\ call = NoCall
    /\ result = NoResult

EvaluateNewUnit ==
    \E new_unit_stats \in Candidates :
        /\ call' = [op |-> "evaluate_new_unit",
                    new_unit_stats |-> new_unit_stats]
        /\ result' = evaluate_new_unit(results_df, new_unit_stats)
        /\ results_df' = results_df_after(results_df, new_unit_stats)
        /\ UNCHANGED <<experiment, loader, config, database, heap, before>>

NextBench == EvaluateNewUnit

SpecBench == InitBench /\ [][NextBench]_vars

(* Overlay calls on caller-owned units and stats dictionaries *)

Stats(keys, attack_interval, hp, base_damage, range, movement_speed) ==
    [k \in keys |->
       CASE k = "attack_interval" -> attack_interval
         [] k = "hp" -> hp
         [] k = "base_damage" -> base_damage
         [] k = "range" -> range
         [] k = "movement_speed" -> movement_speed]

StatsCatalogue ==
    {Stats({"attack_interval", "hp", "base_damage", "range", "movement_speed"},
           R(2), R(200), R(40), R(10), R(3)),
     Stats({"hp"}, R(0), R(100), R(0), R(0), R(0)),
     Stats({"attack_interval", "base_damage", "range"},
           Frac(9, 5), R(0), R(85), R(13), R(0)),
     Stats({"movement_speed", "range"}, R(0), R(0), R(0), R(7), Frac(9, 4))}

MasteryCommanders == DOMAIN COMMANDER_MASTERIES \cup {"Raynor"}
UnitTypes == {NoneStr, "Mechanical", "Primal"}
TechUnits == DOMAIN KEY_TECHNOLOGIES \cup {"Marine"}
TechNames == {"Sacrifice", "AdvancedBallistics", "TungstenSpikes", "Stimpack"}

ModeCatalogue ==
    {UnitMode("siege",
              [k \in {"movement_speed", "range", "damage"} |->
                 CASE k = "movement_speed" -> R(0) [] k = "range" -> R(6)
                   [] k = "damage" -> R(25)],
              "Shock"),
     UnitMode("tank", EmptyDict, "Cannon"),
     UnitMode("AG", [k \in {"range"} |-> R(4)], "Concord")}

InitOverlay ==
    /\ loader = [units |-> EmptyDict, weapons |-> EmptyDict,
                 commanders |-> EmptyDict]
    /\ config = None
    /\ database = UnitDatabase
    /\ results_df = <<>>
    /\ heap = NoHeap
    /\ before = None
    /\ experiment = NoExperiment
    /\ call = NoCall
    /\ result = NoResult

\* the caller's object is placed in the store, the overlay runs on it
Outcome(op, args, object, after) ==
    /\ call' = [op |-> op, args |-> args]
    /\ before' = object
    /\ heap' = after.heap
    /\ result' = after.result
    /\ UNCHANGED <<experiment, loader, config, database, results_df>>

Passed(object) == [copy |-> None, in |-> object]

ApplyModifier ==
    \E u \in DOMAIN EnhancedUnits, c \in DOMAIN database.commanders :
        Outcome("CommanderConfig.apply_modifier", <<c>>, EnhancedUnits[u],
                apply_modifier(Passed(EnhancedUnits[u]), database.commanders[c]))

ApplyMastery ==
    \E stats \in StatsCatalogue, commander \in MasteryCommanders,
       unit_type \in UnitTypes :
        Outcome("MasteryConfig.apply_mastery", <<commander, unit_type>>, stats,
                Mastery_apply_mastery(Passed(stats), commander, unit_type))

ApplyTechnology ==
    \E stats \in StatsCatalogue, unit_name \in TechUnits,
       tech_name \in TechNames :
        Outcome("MasteryConfig.apply_technology", <<unit_name, tech_name>>,
                stats, Mastery_apply_technology(Passed(stats), unit_name, tech_name))

ApplyModifiers ==
    \E stats \in StatsCatalogue, mode \in ModeCatalogue :
        Outcome("UnitMode.apply_modifiers", <<mode.mode_name>>, stats,
                apply_modifiers(Passed(stats), mode))

NextOverlay ==
    ApplyModifier \/ ApplyMastery \/ ApplyTechnology \/ ApplyModifiers

SpecOverlay == InitOverlay /\ [][NextOverlay]_vars

-----------------------------------------------------------------------------
(* Comparisons.  One unit is scored twice, the two runs differing in the   *)
(* value of a single field of the unit; both outcomes are kept in result.  *)

MaxArmor == 3

ArmorValues == 0..MaxArmor
CostValues == {0, 25, 100, 101}

\* a unit of 100 hit points and cost 100 whose weapon deals 10 damage per
\* second, every factor of its score being 1
PlatedLoader ==
    [units |->
       [u \in DOMAIN LoadedUnits \cup {"Plated"} |->
          IF u = "Plated"
          THEN UnitData(u, "Raynor", R(100), R(0), R(0), 100, 0, 0, R(1),
                        "Ground", <<WeaponConfig(NoneStr, "Repeater", TRUE)>>)
          ELSE LoadedUnits[u]],
     weapons |->
       [w \in DOMAIN LoadedWeapons \cup {"Repeater"} |->
          IF w = "Repeater"
          THEN WeaponData(w, R(10), 1, R(1), R(1), R(0), EmptyDict, EmptyDict)
          ELSE LoadedWeapons[w]],
     commanders |-> LoadedCommanders]

PlatedUnits ==
    [u \in DOMAIN EnhancedUnits \cup {"Plated", "Unarmed"} |->
       IF u = "Unarmed"
       THEN Unit(u, "Raynor", 50, 0, R(1), 100, 0, 0, R(1), R(3), FALSE,
                 {"Light"}, <<>>, <<>>, <<>>)
       ELSE IF u = "Plated"
       THEN Unit(u, "Raynor", 100, 0, R(0), 100, 0, 0, R(1), R(3), FALSE,
                 {"Armored"}, <<>>,
                 <<Weapon("Repeater", "both", R(10), 1, R(1), R(5), EmptyDict,
                          "none", None)>>,
                 <<>>)
       ELSE EnhancedUnits[u]]

V24Fields == {"armor", "minerals", "vespene"}
EnhancedFields == {"armor", "mineral_cost", "gas_cost"}

Steps(field) ==
    LET values == IF field = "armor" THEN ArmorValues ELSE CostValues
    IN  {step \in values \X values : step[1] < step[2]}

\* the loader whose unit has the value v in the field
WithUnitField(l, unit_id, field, v) ==
    [l EXCEPT !.units[unit_id] =
        [@ EXCEPT ![field] = IF field = "armor" THEN R(v) ELSE v]]

\* _calculate_effective_hp as calculate_cev reaches it, None when the call
\* ends before it or in it
V24_ehp_of(l, cfg, unit_id, apply_mastery) ==
    LET unit == get_unit(l, unit_id)
        commander == get_commander(l, unit.commander)
    IN  IF commander = None
           \/ V24_ehp_error(cfg, unit, commander, apply_mastery) # ""
        THEN None
        ELSE calculate_effective_hp(cfg, unit, commander, apply_mastery)

InitCompare ==
    /\ loader = PlatedLoader
    /\ config \in {CalculationConfig, create_calculation_config}
    /\ database = UnitDatabase
    /\ results_df = <<>>
    /\ heap = NoHeap
    /\ before = None
    /\ experiment = NoExperiment
    /\ call = NoCall
    /\ result = NoResult

CompareV24 ==
    /\ call = NoCall
    /\ \E unit_id \in DOMAIN loader.units, field \in V24Fields,
          weapon_mode \in {NoneStr, "siege"}, apply_mastery \in BOOLEAN :
        \E step \in Steps(field) :
          LET low == WithUnitField(loader, unit_id, field, step[1])
              high == WithUnitField(loader, unit_id, field, step[2])
          IN  /\ call' = [op |-> "V24.compare", unit_id |-> unit_id,
                          field |-> field, low |-> step[1], high |-> step[2],
                          weapon_mode |-> weapon_mode,
                          apply_mastery |-> apply_mastery]
              /\ result' =
                   [status |-> "compared",
                    low |-> V24_calculate_cev(low, config, unit_id,
                                              weapon_mode, apply_mastery,
                                              NoneStr),
                    high |-> V24_calculate_cev(high, config, unit_id,
                                               weapon_mode, apply_mastery,
                                               NoneStr),
                    ehp_low |-> V24_ehp_of(low, config, unit_id, apply_mastery),
                    ehp_high |-> V24_ehp_of(high, config, unit_id,
                                            apply_mastery)]
              /\ UNCHANGED <<experiment, loader, config, database, results_df, heap,
                             before>>

CompareEnhanced ==
    /\ call = NoCall
    /\ \E u \in DOMAIN PlatedUnits, field \in EnhancedFields,
          time_seconds \in Times, mode_name \in {NoneStr, "siege"} :
        \E step \in Steps(field) :
          LET low == [PlatedUnits[u] EXCEPT ![field] = step[1]]
              high == [PlatedUnits[u] EXCEPT ![field] = step[2]]
              commander_config == Get(database.commanders, low.commander, None)
          IN  /\ call' = [op |-> "Enhanced.compare", unit |-> PlatedUnits[u],
                          field |-> field, low |-> step[1], high |-> step[2],
                          time_seconds |-> time_seconds,
                          mode_name |-> mode_name]
              /\ result' =
                   [status |-> "compared",
                    low |-> Enh_calculate_cev(database, low, time_seconds,
                                              <<>>, mode_name, 0, 0),
                    high |-> Enh_calculate_cev(database, high, time_seconds,
                                               <<>>, mode_name, 0, 0),
                    ehp_low |-> Enh_calculate_effective_hp(low, commander_config),
                    ehp_high |-> Enh_calculate_effective_hp(high,
                                                            commander_config)]
              /\ UNCHANGED <<experiment, loader, config, database, results_df, heap,
                             before>>

NextCompare == CompareV24 \/ CompareEnhanced

SpecCompare == InitCompare /\ [][NextCompare]_vars

(* The overkill penalty of a weapon, over the configurations that list the
   default (threshold, penalty) pairs in any order *)

Listings ==
    {[i \in 1..Len(DefaultOverkillThresholds) |->
        DefaultOverkillThresholds[p[i]]] :
       p \in Permutations(1..Len(DefaultOverkillThresholds))}

ShotDamages == {40, 50, 75, 100, 120, 150, 200, 240}
StrikeCounts == {1, 2}
\* target_avg_hp of the default scenario and of COMBAT_SCENARIOS
TargetHps == {50, 100, 150, 200}

InitOverkill ==
    /\ loader = YAMLDataLoader
    /\ config \in {[CalculationConfig EXCEPT !.overkill_thresholds = listing] :
                      listing \in Listings}
    /\ database = NoDatabase
    /\ results_df = <<>>
    /\ heap = NoHeap
    /\ before = None
    /\ experiment = NoExperiment
    /\ call = NoCall
    /\ result = NoResult

CalculateOverkillPenalty ==
    \E damage \in ShotDamages, attacks \in StrikeCounts :
        LET weapon == WeaponData("Shot", R(damage), attacks, R(1), R(5), R(0),
                                 EmptyDict, EmptyDict)
        IN  /\ call' = [op |-> "V24.overkill_penalty", weapon |-> weapon]
            /\ result' = [status |-> "ok",
                          penalty |-> calculate_overkill_penalty(config, weapon)]
            /\ UNCHANGED <<experiment, loader, config, database, results_df, heap, before>>

GetOverkillFactor ==
    \E damage \in ShotDamages, target_avg_hp \in TargetHps :
        /\ call' = [op |-> "Refined.overkill_factor", damage |-> R(damage),
                    target_avg_hp |-> R(target_avg_hp)]
        /\ result' = [status |-> "ok",
                      penalty |-> get_overkill_factor(R(damage),
                                                      R(target_avg_hp))]
        /\ UNCHANGED <<experiment, loader, config, database, results_df, heap, before>>

NextOverkill == CalculateOverkillPenalty \/ GetOverkillFactor

SpecOverkill == InitOverkill /\ [][NextOverkill]_vars

(* The population-pressure ceiling lambda_max, over databases whose
   commander_config.json gives Raynor any documented population cap *)

PopulationCaps == {50, 100, 150, 200}
FreeUnitRatios == {R(0), Frac(1, 4)}

\* AdvancedDataLoader._load_commander_configs: the file's population_cap
LoadedDatabase(cap) ==
    [commanders |->
       [DefaultCommanderConfigs EXCEPT !["Raynor"].population_cap = cap]]

ModelCorrections_calculate_lambda_max(commander_config, free_unit_ratio) ==
    IF commander_config.population_cap = 200 THEN R(1)
    ELSE IF commander_config.population_cap = 100
    THEN RSub(R(2), free_unit_ratio)
    ELSE RSub(R(2), Frac(commander_config.population_cap, 200))

InitLambda ==
    /\ loader = [units |-> EmptyDict, weapons |-> EmptyDict,
                 commanders |-> EmptyDict]
    /\ config = None
    /\ database \in {LoadedDatabase(cap) : cap \in PopulationCaps}
    /\ results_df = <<>>
    /\ heap = NoHeap
    /\ before = None
    /\ experiment = NoExperiment
    /\ call = NoCall
    /\ result = NoResult

LambdaEnhanced ==
    \E u \in DOMAIN EnhancedUnits, time_seconds \in Times,
       mode_name \in ModeNames :
        /\ call' = [op |-> "Enhanced.calculate_cev", unit |-> EnhancedUnits[u],
                    time_seconds |-> time_seconds, target_attributes |-> <<>>,
                    mode_name |-> mode_name, n_support |-> 0, n_ally |-> 0]
        /\ result' = Enh_calculate_cev(database, EnhancedUnits[u], time_seconds,
                                       <<>>, mode_name, 0, 0)
        /\ UNCHANGED <<experiment, loader, config, database, results_df, heap, before>>

CalculateLambdaMax ==
    \E c \in DOMAIN database.commanders, free_unit_ratio \in FreeUnitRatios :
        /\ call' = [op |-> "ModelCorrections.calculate_lambda_max",
                    commander |-> c, free_unit_ratio |-> free_unit_ratio]
        /\ result' = [status |-> "ok",
                      lambda_max |->
                        ModelCorrections_calculate_lambda_max(
                            database.commanders[c], free_unit_ratio)]
        /\ UNCHANGED <<experiment, loader, config, database, results_df, heap, before>>

NextLambda == LambdaEnhanced \/ CalculateLambdaMax

SpecLambda == InitLambda /\ [][NextLambda]_vars

(* ExperimentRunner.run_experiment, statement by statement.  call.pc is the
   position of the call; experiment is the directory it works on: the status
   of metadata.json and the files written so far *)

ExperimentTypes ==
    {"unit_eval", "cmd_comp", "balance", "cem_viz", "param_sweep", "synergy",
     "meta"}

\* a type without a registered handler
UnknownType == "unknown"

Directory(status, results_summary, error, report) ==
    [status |-> status, results_summary |-> results_summary,
     error |-> error, report |-> report]

\* update_experiment_status: metadata.json is rewritten when it exists
update_experiment_status(dir, status) ==
    IF dir.status = "absent" THEN dir ELSE [dir EXCEPT !.status = status]

InitRun ==
    /\ loader = [units |-> EmptyDict, weapons |-> EmptyDict,
                 commanders |-> EmptyDict]
    /\ config = None
    /\ database = NoDatabase
    /\ results_df = <<>>
    /\ heap = NoHeap
    /\ before = None
    /\ experiment = NoExperiment
    /\ \E type \in ExperimentTypes \cup {UnknownType},
          generate_report \in BOOLEAN :
         call = [op |-> "run_experiment", pc |-> "start", type |-> type,
                 generate_report |-> generate_report]
    /\ result = NoResult

At(pc) == call.op = "run_experiment" /\ call.pc = pc

Goto(pc) == call' = [call EXCEPT !.pc = pc]

RunFrame == UNCHANGED <<loader, config, database, results_df, heap, before>>

\* exp_dir is None: create_experiment_dir writes metadata.json
CreateExperimentDir ==
    /\ At("start")
    /\ experiment' = Directory("created", FALSE, FALSE, FALSE)
    /\ Goto("created")
    /\ UNCHANGED result
    /\ RunFrame

UpdateStatusRunning ==
    /\ At("created")
    /\ experiment' = update_experiment_status(experiment, "running")
    /\ Goto("running")
    /\ UNCHANGED result
    /\ RunFrame

\* the handler of the type runs: no handler is registered, or the handler
\* raises, or it returns the results
RunHandler ==
    /\ At("running")
    /\ \E raises \in BOOLEAN :
         Goto(IF call.type = UnknownType \/ raises THEN "except" ELSE "save")
    /\ UNCHANGED <<experiment, result>>
    /\ RunFrame

\* save_experiment_results: json.dump writes results_summary.json or raises
\* on a value it cannot serialise; then the status becomes 'completed'
SaveExperimentResults ==
    /\ At("save")
    /\ \E dumped \in BOOLEAN :
         IF dumped
         THEN /\ experiment' =
                   update_experiment_status(
                       [experiment EXCEPT !.results_summary = TRUE],
                       "completed")
              /\ Goto(IF call.generate_report THEN "report" ELSE "return")
         ELSE /\ UNCHANGED experiment
              /\ Goto("except")
    /\ UNCHANGED result
    /\ RunFrame

\* create_experiment_report writes the report or raises
CreateExperimentReport ==
    /\ At("report")
    /\ \E written \in BOOLEAN :
         IF written
         THEN /\ experiment' = [experiment EXCEPT !.report = TRUE]
              /\ Goto("return")
         ELSE /\ UNCHANGED experiment
              /\ Goto("except")
    /\ UNCHANGED result
    /\ RunFrame

\* the except clause: error.json, status 'failed', results of a failure
HandleException ==
    /\ At("except")
    /\ experiment' =
         update_experiment_status([experiment EXCEPT !.error = TRUE], "failed")
    /\ result' = [status |-> "ok", meta |-> [success |-> FALSE]]
    /\ Goto("done")
    /\ RunFrame

ReturnResults ==
    /\ At("return")
    /\ result' = [status |-> "ok", meta |-> [success |-> TRUE]]
    /\ Goto("done")
    /\ UNCHANGED experiment
    /\ RunFrame

NextRun ==
    \/ CreateExperimentDir
    \/ UpdateStatusRunning
    \/ RunHandler
    \/ SaveExperimentResults
    \/ CreateExperimentReport
    \/ HandleException
    \/ ReturnResults

SpecRun == InitRun /\ [][NextRun]_vars

(* calculate_special_abilities_value over the ability lists of a unit *)

MaxAbilities == 3

AbilityCatalogue ==
    {Ability("Strike", "active", R(5), R(10), R(0), EmptyDict),
     Ability("Mend", "active", R(20), R(0), R(40), EmptyDict),
     Ability("Drain", "active", R(0), R(20), R(10), EmptyDict),
     Ability("Stimpack", "passive", R(0), R(0), R(0),
             [k \in {"attack_speed"} |-> Frac(1, 2)]),
     Ability("SiegeMode", "toggle", R(0), R(0), R(0), EmptyDict)}

AbilityLists == UNION {[1..n -> AbilityCatalogue] : n \in 0..MaxAbilities}

InitAbilities ==
    /\ loader = [units |-> EmptyDict, weapons |-> EmptyDict,
                 commanders |-> EmptyDict]
    /\ config = None
    /\ database = NoDatabase
    /\ results_df = <<>>
    /\ heap = NoHeap
    /\ before = None
    /\ experiment = NoExperiment
    /\ call = NoCall
    /\ result = NoResult

CalculateSpecialAbilitiesValue ==
    \E abilities \in AbilityLists :
        LET value == calculate_special_abilities_value([abilities |-> abilities])
        IN  /\ call' = [op |-> "calculate_special_abilities_value",
                        abilities |-> abilities]
            /\ result' = IF value.error # ""
                         THEN Raised(value.error, "ability_value", <<>>)
                         ELSE [status |-> "ok", ability_value |-> value.value]
            /\ UNCHANGED <<experiment, loader, config, database, results_df,
                           heap, before>>

NextAbilities == CalculateSpecialAbilitiesValue

SpecAbilities == InitAbilities /\ [][NextAbilities]_vars

(* UnitDatabase.add_unit and get_unit over the rows of a unit CSV *)

MaxStored == 2

\* the commander and english_id columns of the CSV are free text
CommanderNames == {"Han", "Han_Horner", "Raynor"}
EnglishIds == {"Tank", "Horner_Tank", "Marine"}
StoredHps == {100, 150}

StoredUnits ==
    {Unit(u, c, 150, 125, R(3), hp, 0, 1, R(1), R(2), FALSE, {"Armored"},
          <<>>, <<>>, <<>>) :
       c \in CommanderNames, u \in EnglishIds, hp \in StoredHps}

\* f"{commander}_{english_id}"
UnitKey(commander, english_id) == commander \o "_" \o english_id

\* UnitDatabase(): no unit and no commander
EmptyUnitDatabase == [commanders |-> EmptyDict, units |-> EmptyDict]

UnitDatabase_add_unit(db, unit) ==
    LET key == UnitKey(unit.commander, unit.english_id)
    IN  [db EXCEPT !.units =
           [k \in DOMAIN db.units \cup {key} |->
              IF k = key THEN unit ELSE db.units[k]]]

\* self.units.get(key)
UnitDatabase_get_unit(db, commander, unit_id) ==
    LET key == UnitKey(commander, unit_id)
    IN  IF key \in DOMAIN db.units THEN db.units[key] ELSE None

InitDatabase ==
    /\ loader = [units |-> EmptyDict, weapons |-> EmptyDict,
                 commanders |-> EmptyDict]
    /\ config = None
    /\ database = EmptyUnitDatabase
    /\ results_df = <<>>
    /\ heap = NoHeap
    /\ before = None
    /\ experiment = NoExperiment
    /\ call = NoCall
    /\ result = NoResult

AddUnit ==
    \E unit \in StoredUnits :
        /\ \/ UnitKey(unit.commander, unit.english_id) \in DOMAIN database.units
           \/ Cardinality(DOMAIN database.units) < MaxStored
        /\ call' = [op |-> "add_unit", unit |-> unit]
        /\ database' = UnitDatabase_add_unit(database, unit)
        /\ result' = [status |-> "ok", unit |-> None]
        /\ UNCHANGED <<experiment, loader, config, results_df, heap, before>>

GetUnit ==
    \E commander \in CommanderNames, unit_id \in EnglishIds :
        /\ call' = [op |-> "get_unit", commander |-> commander,
                    unit_id |-> unit_id]
        /\ result' = [status |-> "ok",
                      unit |-> UnitDatabase_get_unit(database, commander, unit_id)]
        /\ UNCHANGED <<experiment, loader, config, database, results_df, heap,
                       before>>

NextDatabase == AddUnit \/ GetUnit

SpecDatabase == InitDatabase /\ [][NextDatabase]_vars

(* The armor adjustment of effective HP in each calculator *)

\* hit points of a unit without shields, mastery or commander modifier
HitPoints == {0, 1, 45, 100, 160, 200, 350}

\* Unit.effective_hp
Unit_effective_hp(unit) ==
    LET armor_reduction == Frac(unit.armor, unit.armor + 10)
    IN  RAdd(R(unit.shields), RDiv(R(unit.hp), RSub(R(1), armor_reduction)))

InitArmor ==
    /\ loader = [units |-> EmptyDict, weapons |-> EmptyDict,
                 commanders |-> EmptyDict]
    /\ config = CalculationConfig
    /\ database = NoDatabase
    /\ results_df = <<>>
    /\ heap = NoHeap
    /\ before = None
    /\ experiment = NoExperiment
    /\ call = NoCall
    /\ result = NoResult

EffectiveHpRefined ==
    \E hp \in HitPoints, armor \in ArmorValues :
        /\ call' = [op |-> "Refined.calculate_effective_hp", hp |-> hp,
                    armor |-> armor]
        /\ result' =
             [status |-> "ok",
              effective_hp |->
                Ref_calculate_effective_hp(
                    RefinedUnit("Plain", "Raynor", 100, 0, 1, hp, 0, armor,
                                R(1)))]
        /\ UNCHANGED <<experiment, loader, config, database, results_df, heap,
                       before>>

EffectiveHpV24 ==
    \E hp \in HitPoints, armor \in ArmorValues :
        /\ call' = [op |-> "V24._calculate_effective_hp", hp |-> hp,
                    armor |-> armor]
        /\ result' =
             [status |-> "ok",
              effective_hp |->
                calculate_effective_hp(
                    config,
                    UnitData("Plain", "Raynor", R(hp), R(armor), R(0), 100, 0,
                             1, R(1), "Ground", <<>>),
                    CommanderData("Raynor", 200, Frac(5, 2), FALSE), FALSE)]
        /\ UNCHANGED <<experiment, loader, config, database, results_df, heap,
                       before>>

PlainUnit(hp, armor) ==
    Unit("Plain", "Raynor", 100, 0, R(1), hp, 0, armor, R(1), R(3), FALSE,
         {"Armored"}, <<>>, <<>>, <<>>)

EffectiveHpEnhanced ==
    \E hp \in HitPoints, armor \in ArmorValues :
        /\ call' = [op |-> "Enhanced.calculate_effective_hp", hp |-> hp,
                    armor |-> armor]
        /\ result' =
             [status |-> "ok",
              effective_hp |->
                Enh_calculate_effective_hp(PlainUnit(hp, armor), None)]
        /\ UNCHANGED <<experiment, loader, config, database, results_df, heap,
                       before>>

EffectiveHpUnit ==
    \E hp \in HitPoints, armor \in ArmorValues :
        /\ call' = [op |-> "Unit.effective_hp", hp |-> hp, armor |-> armor]
        /\ result' = [status |-> "ok",
                      effective_hp |-> Unit_effective_hp(PlainUnit(hp, armor))]
        /\ UNCHANGED <<experiment, loader, config, database, results_df, heap,
                       before>>

NextArmor ==
    \/ EffectiveHpRefined
    \/ EffectiveHpV24
    \/ EffectiveHpEnhanced
    \/ EffectiveHpUnit

SpecArmor == InitArmor /\ [][NextArmor]_vars

-----------------------------------------------------------------------------
(* Properties of CEVCalculatorV24, checked under SpecV24 *)

V24Called == call.op = "V24.calculate_cev"

\* a unit that costs nothing under a commander exempt from the supply tax
FreeUnit(unit, commander) ==
    /\ unit.minerals = 0 /\ unit.vespene = 0 /\ unit.supply = 0
    /\ commander.no_supply_tax

\* C1: for a unit with mineral cost 0, gas cost 0 and population cost 0 under
\* a commander exempt from the population tax, calculate_cev raises nothing
\* and returns a result whose cev is the unbounded marker.
C1_FreeUnitUnbounded ==
    (/\ V24Called
     /\ call.unit_id \in DOMAIN loader.units
     /\ loader.units[call.unit_id].commander \in DOMAIN loader.commanders
     /\ FreeUnit(loader.units[call.unit_id],
                 loader.commanders[loader.units[call.unit_id].commander]))
    => (result.status = "ok" /\ result.cev = PosInf)

\* the weapon reference _get_weapon_for_mode selects, NoneStr when it
\* selects none
SelectedWeaponRef(unit, mode) ==
    IF unit.weapons = <<>> THEN NoneStr
    ELSE IF NotMode(mode)
    THEN (IF \E i \in DOMAIN unit.weapons : unit.weapons[i].is_default
          THEN unit.weapons[Lowest({i \in DOMAIN unit.weapons :
                                      unit.weapons[i].is_default})].weapon_ref
          ELSE unit.weapons[1].weapon_ref)
    ELSE IF \E i \in DOMAIN unit.weapons : unit.weapons[i].mode = mode
    THEN unit.weapons[Lowest({i \in DOMAIN unit.weapons :
                                unit.weapons[i].mode = mode})].weapon_ref
    ELSE NoneStr

UnitAbsent == call.unit_id \notin DOMAIN loader.units
CommanderAbsent ==
    /\ ~UnitAbsent
    /\ loader.units[call.unit_id].commander \notin DOMAIN loader.commanders
WeaponAbsent ==
    /\ ~UnitAbsent
    /\ ~CommanderAbsent
    /\ SelectedWeaponRef(loader.units[call.unit_id], call.weapon_mode)
         \notin DOMAIN loader.weapons

\* C2: calculate_cev raises a not-found error when the unit id, the unit's
\* commander id or the selected weapon reference is absent from the loader;
\* the error is raised before any score component is computed and no result
\* dictionary is returned.
C2_NotFoundRaisedFirst ==
    V24Called =>
        /\ UnitAbsent =>
              result = Raised("ValueError", "unit_not_found", <<>>)
        /\ CommanderAbsent =>
              result = Raised("ValueError", "commander_not_found", <<>>)
        /\ WeaponAbsent =>
              result = Raised("ValueError", "weapon_not_found", <<>>)

\* a call on a unit whose commander is not loaded has raised
C2_Witness ==
    /\ V24Called
    /\ CommanderAbsent
    /\ result.status = "raised"
    /\ result.what = "commander_not_found"

\* C9: no call of calculate_cev, succeeding or raising, changes a record of
\* the loader or the calculator's configuration.
C9_LoaderAndConfigUnchanged ==
    [][loader' = loader /\ config' = config]_vars

\* a call with apply_mastery on a Swann unit has returned a score computed
\* from the mastery-scaled life, and the loader still holds the loaded data
C9_Witness ==
    /\ V24Called
    /\ call.apply_mastery
    /\ result.status = "ok"
    /\ result.commander = "Swann"
    /\ result.components.ehp # Round2(calculate_effective_hp(
            config, loader.units[call.unit_id],
            loader.commanders["Swann"], FALSE))
    /\ loader = YAMLDataLoader

-----------------------------------------------------------------------------
(* Properties of EnhancedCEVCalculator and RefinedCEVCalculator, checked   *)
(* under SpecScore                                                         *)

NotFoundError ==
    result.status = "raised" /\ result.error \in {"KeyError", "ValueError"}

\* C3: scoring a unit whose commander id is not in the supplied commander
\* data ends in a not-found error, in EnhancedCEVCalculator.calculate_cev
\* and in RefinedCEVCalculator.calculate_cev alike; no score computed from
\* default commander values is returned.
C3_UnknownCommanderRejected ==
    /\ (/\ call.op = "Enhanced.calculate_cev"
        /\ call.unit.commander \notin DOMAIN database.commanders)
       => NotFoundError
    /\ (/\ call.op = "Refined.calculate_cev"
        /\ call.commander \notin DOMAIN commander_traits)
       => NotFoundError

-----------------------------------------------------------------------------
(* Properties of BenchmarkSystemV2, checked under SpecBench *)

Evaluated == call.op = "evaluate_new_unit"
Reference == MidGame(results_df)
Scored == Evaluated /\ result.status = "ok"

\* C4: with no mid_game row in results_df, evaluate_new_unit rejects the
\* request with an error and returns no percentile, NaN or classification.
C4_EmptyPopulationRejected ==
    (Evaluated /\ Reference = <<>>) => result.status = "raised"

\* the status the documented bucket edges give a finite deviation
DocumentedStatus(dev) ==
    IF RLt(dev.sq, R(1)) THEN "balanced"
    ELSE IF dev.sign > 0
    THEN (IF RLt(dev.sq, R(4)) THEN "slightly_strong" ELSE "overpowered")
    ELSE (IF RLt(dev.sq, R(4)) THEN "slightly_weak" ELSE "underpowered")

\* C5: _assess_balance gives a finite deviation d the status of the
\* documented buckets: |d| < 1 balanced, 1 <= d < 2 slightly strong,
\* d >= 2 overpowered, -2 < d <= -1 slightly weak, d <= -2 underpowered,
\* the edges d = 1, 2, -1, -2 included.
C5_DocumentedBuckets ==
    (Scored /\ IsFinite(result.balance_assessment.deviation.sq))
    => result.balance_assessment.status
         = DocumentedStatus(result.balance_assessment.deviation)

\* 100 * (number of members whose metric is strictly less than value) / N
StrictlyBelowShare(df, metric, value) ==
    Frac(100 * Cardinality({i \in DOMAIN df : df[i][metric] < value}),
         Len(df))

PercentileRight(df, metric, value, p) ==
    /\ p = StrictlyBelowShare(df, metric, value)
    /\ RLe(R(0), p) /\ RLe(p, R(100))
    /\ (\A i \in DOMAIN df : df[i][metric] >= value) => p = R(0)
    /\ (\A i \in DOMAIN df : df[i][metric] < value) => p = R(100)

\* C6: for a non-empty reference population each percentile evaluate_new_unit
\* returns is 100 * (members strictly below the new unit's metric) / N; it
\* lies in [0, 100], is 0 when no member is strictly below and 100 when
\* every member is.
C6_PercentileStrictlyBelow ==
    (Scored /\ Reference # <<>>) =>
        /\ PercentileRight(Reference, "cev", call.new_unit_stats["cev"],
                           result.cev_percentile)
        /\ PercentileRight(Reference, "effective_dps",
                           call.new_unit_stats["effective_dps"],
                           result.dps_percentile)
        /\ PercentileRight(Reference, "effective_hp",
                           call.new_unit_stats["effective_hp"],
                           result.survivability_percentile)

\* a new unit tied with one member, above another and below a third,
\* has been given a cev percentile strictly between 0 and 100
C6_Witness ==
    /\ Scored
    /\ \E i, j, k \in DOMAIN Reference :
          /\ Reference[i].cev = call.new_unit_stats["cev"]
          /\ Reference[j].cev < call.new_unit_stats["cev"]
          /\ Reference[k].cev > call.new_unit_stats["cev"]
    /\ RLt(R(0), result.cev_percentile)
    /\ RLt(result.cev_percentile, R(100))

\* the variance of the reference cevs with divisor N
PopulationVariance(df) ==
    Frac(Len(df) * SumCevSq(df, 1) - SumCev(df, 1) * SumCev(df, 1),
         Len(df) * Len(df))

\* C7: the deviation _assess_balance computes is the distance of the new
\* cev from the mean divided by the population standard deviation of the
\* reference cevs (divisor N).
C7_PopulationStd ==
    (Scored /\ Len(Reference) >= 2) =>
        result.balance_assessment.deviation
          = Deviation(call.new_unit_stats["cev"], cev_mean(Reference),
                      PopulationVariance(Reference))

\* the returned entries are the entries of the members in S, each as often
SameEntries(sim, df, S) ==
    \A e \in {sim[k] : k \in DOMAIN sim} :
        Cardinality({k \in DOMAIN sim : sim[k] = e})
          = Cardinality({i \in S :
                           SimilarEntry(call.new_unit_stats, df[i]) = e})

-----------------------------------------------------------------------------
(* Properties of the overlays, checked under SpecOverlay *)

OverlayCalled ==
    call.op \in {"CommanderConfig.apply_modifier",
                 "MasteryConfig.apply_mastery",
                 "MasteryConfig.apply_technology",
                 "UnitMode.apply_modifiers"}

\* C10: a commander, mastery, technology or mode overlay leaves its input
\* as it was: after the call the unit (its hp, each weapon's base_damage) or
\* the stats dictionary the caller passed has the values it had before.
C10_InputUnchanged ==
    OverlayCalled => heap.in = before

-----------------------------------------------------------------------------
(* Further properties of BenchmarkSystemV2, checked under SpecBench *)

\* C11: no call of evaluate_new_unit, succeeding or failing, changes the
\* benchmark population: the rows and values of results_df after the call
\* are those before it.
C11_PopulationUnchanged ==
    [][results_df' = results_df]_vars

\* a query has been answered from a population that holds rows of another
\* game phase besides the mid_game rows it was answered from
C11_Witness ==
    /\ Scored
    /\ result.similar_units # <<>>
    /\ Len(Reference) < Len(results_df)

-----------------------------------------------------------------------------
(* Further properties of EnhancedCEVCalculator and RefinedCEVCalculator,   *)
(* checked under SpecScore                                                 *)

EnhancedCalled == call.op = "Enhanced.calculate_cev"

\* the unit has no mode of the name the request asks for
ModeNotExposed ==
    /\ EnhancedCalled
    /\ call.mode_name # NoneStr
    /\ \A i \in DOMAIN call.unit.modes :
          call.unit.modes[i].mode_name # call.mode_name

\* C12: a request for a weapon mode the unit does not expose ends in a
\* validation error raised before any score component is computed; the
\* calculator does not go on with a substitute weapon set.
C12_UnexposedModeRejected ==
    ModeNotExposed => (result.status = "raised" /\ result.steps = <<>>)

-----------------------------------------------------------------------------
(* Further properties of CEVCalculatorV24, checked under SpecV24 *)

\* C13: for fixed loader data, configuration and arguments calculate_cev
\* returns the same result whatever calls were made before it: after any
\* history the result is the one the call gives on the data as loaded.
C13_ResultIndependentOfHistory ==
    V24Called =>
        result = V24_calculate_cev(YAMLDataLoader, config, call.unit_id,
                                   call.weapon_mode, call.apply_mastery,
                                   call.scenario)

\* a Swann unit has been scored without mastery; calls with mastery on the
\* same unit are among the calls that can come before it
C13_Witness ==
    /\ V24Called
    /\ ~call.apply_mastery
    /\ result.status = "ok"
    /\ result.commander = "Swann"
    /\ result.details.life = YAMLDataLoader.units[call.unit_id].life

\* natural numbers beyond the machine integers, as their digits to the base
\* 1000, lowest first
RECURSIVE BigTimes(_, _, _, _)
BigTimes(a, k, i, carry) ==
    IF i > Len(a)
    THEN (IF carry = 0 THEN <<>>
          ELSE <<carry % 1000>> \o BigTimes(a, k, i, carry \div 1000))
    ELSE LET t == a[i] * k + carry
         IN  <<t % 1000>> \o BigTimes(a, k, i + 1, t \div 1000)

BigMul(a, k) == BigTimes(a, k, 1, 0)

BigDigit(a, i) == IF i <= Len(a) THEN a[i] ELSE 0

RECURSIVE BigLeFrom(_, _, _)
BigLeFrom(a, b, i) ==
    IF i = 0 THEN TRUE
    ELSE IF BigDigit(a, i) # BigDigit(b, i)
    THEN BigDigit(a, i) < BigDigit(b, i)
    ELSE BigLeFrom(a, b, i - 1)

BigLe(a, b) == BigLeFrom(a, b, IF Len(a) < Len(b) THEN Len(b) ELSE Len(a))

\* a value reported with two decimals, in hundredths
Hundredths(x) == x.n * (100 \div x.d)

\* dps_eff * psi * ehp * omega * f_range of the reported components
ReportedProduct(c) ==
    BigMul(BigMul(BigMul(BigMul(<<Hundredths(c.dps_eff)>>, Hundredths(c.psi)),
                         Hundredths(c.ehp)), Hundredths(c.omega)),
           Hundredths(c.f_range))

\* c_eff * cev of the reported values, on the scale of ReportedProduct
ReportedCost(r) ==
    BigMul(BigMul(BigMul(<<Hundredths(r.components.c_eff)>>,
                         Hundredths(r.cev)), 1000), 1000)

\* C14: in every result of calculate_cev the reported cev is the one the
\* reported components give: c_eff * cev / (dps_eff * psi * ehp * omega *
\* f_range) is 1 to within one part in a million.
C14_CevReconstructible ==
    (V24Called /\ result.status = "ok") =>
        /\ BigLe(BigMul(ReportedCost(result), 1000000),
                 BigMul(ReportedProduct(result.components), 1000001))
        /\ BigLe(BigMul(ReportedProduct(result.components), 999999),
                 BigMul(ReportedCost(result), 1000000))

\* the scenario calculate_cev works with, and the attribute it selects
CalledScenario ==
    IF call.scenario = NoneStr \/ call.scenario = ""
    THEN config.scenario ELSE call.scenario

SelectedAttribute ==
    IF CalledScenario = "vs_armored" THEN "Armored"
    ELSE IF CalledScenario = "vs_light" THEN "Light"
    ELSE NoneStr

CalledWeapon ==
    loader.weapons[SelectedWeaponRef(loader.units[call.unit_id],
                                     call.weapon_mode)]

\* the call was answered for a weapon that has a bonus against the
\* attribute the scenario selects
BonusSelected ==
    /\ V24Called
    /\ result.status = "ok"
    /\ SelectedAttribute \in DOMAIN CalledWeapon.attribute_bonus

\* C18: when the scenario selects an attribute the weapon has a bonus
\* against, the damage per attack behind dps_eff is (base damage + bonus) *
\* strike count: the bonus is multiplied by the number of strikes as the
\* base damage is.
C18_BonusPerStrike ==
    (BonusSelected /\ ~call.apply_mastery
     /\ "MaelstromRounds" \notin DOMAIN CalledWeapon.upgrades)
    => result.components.dps_eff
         = Round2(RDiv(RMul(RMul(RAdd(CalledWeapon.damage,
                                      CalledWeapon.attribute_bonus[
                                          SelectedAttribute]),
                                 R(CalledWeapon.attacks)),
                            result.components.splash_factor),
                       CalledWeapon.period))

RefinedCalled == call.op = "Refined.calculate_cev"

\* the synergy multiplier of the answered call
SynergyMultiplier ==
    IF RefinedCalled THEN result.factors.synergy ELSE result.synergy_bonus

\* C20: the synergy multiplier that enters the cev is at least 1.0 for every
\* unit and all support and ally counts, and exactly 1.0 when no
\* composition context is given.
C20_SynergyAtLeastOne ==
    ((EnhancedCalled \/ RefinedCalled) /\ result.status = "ok")
    => /\ RLe(R(1), SynergyMultiplier)
       /\ (EnhancedCalled /\ call.n_support = 0 /\ call.n_ally = 0)
          => SynergyMultiplier = R(1)

-----------------------------------------------------------------------------
(* Properties of the overkill penalty, checked under SpecOverkill *)

\* the pairs of a table whose threshold the damage reaches
Reached(table, damage) ==
    {i \in DOMAIN table : RLe(table[i][1], damage)}

\* the penalty paired with the largest threshold the damage reaches, 1.0
\* when it reaches none
HighestReached(table, damage) ==
    IF Reached(table, damage) = {} THEN R(1)
    ELSE LET top == CHOOSE i \in Reached(table, damage) :
                      \A j \in Reached(table, damage) :
                          RLe(table[j][1], table[i][1])
         IN  table[top][2]

\* C19: the overkill penalty is the one paired with the largest configured
\* threshold the damage reaches, in whatever order the configuration lists
\* the pairs and for every target_avg_hp, and 1.0 below every threshold.
C19_HighestThresholdFirst ==
    /\ call.op = "V24.overkill_penalty"
       => result.penalty
            = HighestReached(config.overkill_thresholds,
                             RMul(call.weapon.damage, R(call.weapon.attacks)))
    /\ call.op = "Refined.overkill_factor"
       => result.penalty = HighestReached(SortedOverkillThresholds, call.damage)

-----------------------------------------------------------------------------
(* Properties of the comparisons, checked under SpecCompare *)

Compared == call.op \in {"V24.compare", "Enhanced.compare"}
ComparedV24 == call.op = "V24.compare"
ComparedEnhanced == call.op = "Enhanced.compare"

\* the digits of a machine integer
BigOf(n) ==
    <<n % 1000, (n \div 1000) % 1000, (n \div 1000000) % 1000,
      n \div 1000000000>>

\* a <= b and a < b for non-negative values, the products taken digit by digit
AtMost(a, b) == BigLe(BigMul(BigOf(a.n), b.d), BigMul(BigOf(b.n), a.d))
Less(a, b) == ~AtMost(b, a)

\* hp / (1 - armor / (armor + 10)) written as hp * (armor + 10) / 10
ArmoredHp(hp, armor) == RDiv(RMul(hp, R(armor + 10)), R(10))

\* effective HP by the documented formula, for the V24 unit of the call with
\* the given armor and without mastery
V24_DocumentedEhp(armor) ==
    LET unit == loader.units[call.unit_id]
    IN  RAdd(ArmoredHp(unit.life, armor), RMul(unit.shields, Frac(7, 5)))

\* effective HP by the documented formula for the Enhanced unit of the call:
\* the shields count with ten seconds of regeneration, the sum is scaled by
\* the commander's hp modifier
Enhanced_DocumentedEhp(armor) ==
    LET unit == call.unit
        regen == IF unit.shields > 0
                    /\ unit.attributes \cap {"Psionic", "Mechanical"} # {}
                 THEN 20 ELSE 0
        modifiers == IF unit.commander \in DOMAIN database.commanders
                     THEN database.commanders[unit.commander].modifiers
                     ELSE EmptyDict
    IN  RMul(RAdd(ArmoredHp(R(unit.hp), armor), R(unit.shields + regen)),
             Get(modifiers, "hp", R(1)))

ArmorCompared == Compared /\ call.field = "armor"

\* the comparison of the documented example: 100 hit points, no shields,
\* cost 100, 10 damage per second, armor 0 against armor 2
PlatedCompared ==
    /\ ArmorCompared
    /\ call.low = 0 /\ call.high = 2
    /\ IF ComparedV24
       THEN /\ call.unit_id = "Plated"
            /\ ~call.apply_mastery
            /\ call.weapon_mode = NoneStr
       ELSE /\ call.unit.english_id = "Plated"
            /\ call.mode_name = NoneStr

\* C15: effective HP is hp / (1 - armor / (armor + 10)) plus the shield
\* terms, so with armor 0 it is hp plus the shield terms; for the two units
\* of the documented example (armor 0 and armor 2) the effective HPs are 100
\* and 120 and the ratio of the CEVs is exactly 1.2.
C15_ArmorFormula ==
    /\ (ArmorCompared /\ ComparedV24 /\ ~call.apply_mastery
        /\ result.ehp_low # None)
       => /\ result.ehp_low = V24_DocumentedEhp(call.low)
          /\ result.ehp_high = V24_DocumentedEhp(call.high)
          /\ call.low = 0 =>
                result.ehp_low
                  = RAdd(loader.units[call.unit_id].life,
                         RMul(loader.units[call.unit_id].shields, Frac(7, 5)))
    /\ (ArmorCompared /\ ComparedEnhanced)
       => /\ result.ehp_low = Enhanced_DocumentedEhp(call.low)
          /\ result.ehp_high = Enhanced_DocumentedEhp(call.high)
    /\ PlatedCompared
       => /\ result.ehp_low = R(100)
          /\ result.ehp_high = R(120)
          /\ result.low.status = "ok" /\ result.high.status = "ok"
          /\ RLt(R(0), result.low.cev)
          /\ RDiv(result.high.cev, result.low.cev) = Frac(12, 10)

\* the two units of the documented example have been scored by
\* CEVCalculatorV24
C15_Witness ==
    /\ PlatedCompared
    /\ ComparedV24
    /\ result.low.status = "ok"
    /\ result.low.components.ehp = R(100)
    /\ result.high.components.ehp = R(120)

\* the hit points of the unit of the comparison
ComparedHp ==
    IF ComparedV24 THEN loader.units[call.unit_id].life ELSE R(call.unit.hp)

\* both units of the comparison were scored
BothScored ==
    /\ Compared
    /\ result.low.status = "ok"
    /\ result.high.status = "ok"

FinitePositiveCev ==
    /\ result.low.cev # PosInf
    /\ RLt(R(0), result.low.cev)

CostCompared == Compared /\ call.field # "armor"

\* the effective cost of the lower unit of the comparison is positive
PositiveCost ==
    IF ComparedV24
    THEN RLt(R(0), result.low.components.c_eff)
    ELSE RLt(R(0), result.low.effective_cost)

\* C17: for a unit of positive effective cost, with everything else fixed,
\* raising the mineral cost or the gas cost strictly lowers the cev.
C17_CostLowersCev ==
    (CostCompared /\ BothScored /\ PositiveCost)
    => Less(result.high.cev, result.low.cev)

\* the two cevs of CEVCalculatorV24 are further apart than its rounding to
\* two decimals can hide: cev * (1 - c_low / c_high) exceeds 0.02
BeyondRounding ==
    Less(RMul(Frac(2, 100), result.high.components.c_eff),
         RMul(result.low.cev,
              RSub(result.high.components.c_eff, result.low.components.c_eff)))

\* C17, amended: for a unit of positive effective cost, raising the mineral
\* cost or the gas cost never raises the cev; it strictly lowers the cev of
\* EnhancedCEVCalculator when that cev is positive (a unit without damage
\* stays at 0) and the cev of CEVCalculatorV24 when the difference exceeds
\* its rounding to two decimals.
C17_CostLowersPositiveCev ==
    (CostCompared /\ BothScored /\ PositiveCost)
    => /\ AtMost(result.high.cev, result.low.cev)
       /\ (ComparedEnhanced /\ RLt(R(0), result.low.cev))
          => Less(result.high.cev, result.low.cev)
       /\ (ComparedV24 /\ BeyondRounding)
          => Less(result.high.cev, result.low.cev)

\* a unit of positive cost and positive cev has been scored by
\* EnhancedCEVCalculator at two gas costs
C17_Witness ==
    /\ CostCompared /\ BothScored /\ PositiveCost
    /\ ComparedEnhanced
    /\ call.field = "gas_cost"
    /\ RLt(R(0), result.low.cev)
    /\ RLt(result.low.effective_cost, result.high.effective_cost)

-----------------------------------------------------------------------------
(* Properties of lambda_max, checked under SpecLambda *)

\* the population cap of the commander the call is about, 0 when the
\* database has no such commander
CalledCap ==
    LET c == IF call.op = "Enhanced.calculate_cev"
             THEN call.unit.commander ELSE call.commander
    IN  IF c \in DOMAIN database.commanders
        THEN database.commanders[c].population_cap ELSE 0

\* the lambda_max the call applied: the reported lambda over the weight
\* calculate_lambda gives for the time
AppliedLambdaMax ==
    IF call.op = "Enhanced.calculate_cev"
    THEN RDiv(result.lambda, calculate_lambda(call.time_seconds))
    ELSE result.lambda_max

\* C21: lambda_max is 1.0 for a commander at the standard population cap 200
\* and strictly greater than 1.0 for every commander of a smaller cap, in
\* EnhancedCEVCalculator.calculate_cev and in calculate_lambda_max.
C21_LambdaMaxByCap ==
    (call.op # "none" /\ result.status = "ok")
    => /\ CalledCap = 200 => AppliedLambdaMax = R(1)
       /\ (0 < CalledCap /\ CalledCap < 200) => RLt(R(1), AppliedLambdaMax)

\* the unit and the commander of a CEVCalculatorV24 comparison
ComparedUnit == loader.units[call.unit_id]
ComparedCommander == loader.commanders[ComparedUnit.commander]

\* supply * mu with mu = 200 / population_cap
EffectivePop ==
    RMul(R(ComparedUnit.supply), Frac(200, ComparedCommander.population_cap))

\* cev_per_pop * supply * mu is the cev, both as reported with two decimals:
\* the difference is at most half a hundredth of supply * mu plus half a
\* hundredth
PerPopIdentity(r) ==
    LET back == RMul(r.cev_per_pop, EffectivePop)
        gap == IF RLt(back, r.cev) THEN RSub(r.cev, back) ELSE RSub(back, r.cev)
    IN  RLe(gap, RMul(Frac(1, 200), RAdd(EffectivePop, R(1))))

\* C22: for every scored unit and commander calculate_cev reports
\* cev_per_pop = cev / (supply * mu) with mu = 200 / population_cap, that is
\* cev_per_pop * supply * mu = cev up to the reported rounding.
C22_PerPopOfEveryUnit ==
    (ComparedV24 /\ BothScored)
    => PerPopIdentity(result.low) /\ PerPopIdentity(result.high)

\* C22, amended: for every scored unit of positive supply cev_per_pop *
\* supply * mu = cev up to the reported rounding; for a scored unit of
\* supply 0 the reported cev_per_pop is 0.
C22_PerPopOfSuppliedUnit ==
    (ComparedV24 /\ BothScored)
    => IF ComparedUnit.supply > 0
       THEN PerPopIdentity(result.low) /\ PerPopIdentity(result.high)
       ELSE result.low.cev_per_pop = R(0) /\ result.high.cev_per_pop = R(0)

\* a unit of a commander whose population cap is not 200 has been scored
C22_Witness ==
    /\ ComparedV24 /\ BothScored
    /\ ComparedUnit.supply > 0
    /\ ComparedCommander.population_cap # 200
    /\ RLt(R(0), result.low.cev_per_pop)

-----------------------------------------------------------------------------
(* Properties of the range factor, checked under SpecScore *)

\* the call scores the air unit of the documented edge case, whose
\* collision radius is 0
AirUnitScored ==
    /\ call.op = "Refined.calculate_cev"
    /\ call.unit_data["english_id"] = "Banshee"
    /\ call.unit_data["collision_radius"] = R(0)

\* C23: scoring a flying unit never divides by its physical collision
\* radius: an air unit whose collision radius is 0 is scored successfully
\* with a finite cev.
C23_AirUnitScored ==
    AirUnitScored
    => /\ result.status = "ok"
       /\ result.cev \notin {PosInf, NegInf, NaN}

-----------------------------------------------------------------------------
(* The core formula of CEVCalculatorV24, checked under SpecV24 *)

\* the commander of the unit of the call
CalledCommander ==
    loader.commanders[loader.units[call.unit_id].commander]

\* (dps_eff * psi * ehp * omega * f_range) * mu of the reported components,
\* and c_eff * cev of the reported values on the same scale; mu = 200 / cap
\* enters as the whole numbers 200 and cap
ReportedProductTimesMu(r) ==
    BigMul(ReportedProduct(r.components), 200)

ReportedCostTimesCap(r) ==
    BigMul(ReportedCost(r), CalledCommander.population_cap)

-----------------------------------------------------------------------------
(* Properties of ExperimentRunner.run_experiment, checked under SpecRun *)

StatusMoves ==
    {<<"absent", "created">>, <<"created", "running">>,
     <<"running", "completed">>, <<"running", "failed">>}

\* C25: during one run_experiment call the recorded status only moves
\* created -> running -> completed or created -> running -> failed, a
\* 'completed' once written is never overwritten by 'failed', and when the
\* call returns the status is 'completed' exactly if the returned results
\* report meta.success = true and 'failed' otherwise.
C25_StatusMoves ==
    /\ [][experiment'.status # experiment.status
          => <<experiment.status, experiment'.status>> \in StatusMoves]_vars
    /\ [](At("done") =>
            experiment.status = (IF result.meta.success
                                 THEN "completed" ELSE "failed"))


\* the commander of the called unit has no entry in the mastery table of the
\* configuration, which includes a configuration built without any table
NoMasteryEntry ==
    /\ call # NoCall
    /\ call.op = "V24.calculate_cev"
    /\ call.unit_id \in DOMAIN loader.units
    /\ loader.units[call.unit_id].commander \in DOMAIN loader.commanders
    /\ \/ config.mastery_config = None
       \/ CalledCommander.id \notin DOMAIN config.mastery_config

\* C26: for a commander with no entry in the mastery table, a configuration
\* without any mastery table included, calculate_cev with apply_mastery=True
\* completes and returns what it returns with apply_mastery=False
C26_MasteryWithoutEntry ==
    (NoMasteryEntry /\ call.apply_mastery)
        => /\ result.status # "raised"
           /\ result = V24_calculate_cev(loader, config, call.unit_id,
                                         call.weapon_mode, FALSE,
                                         call.scenario)

-----------------------------------------------------------------------------
(* Properties of _assess_balance at the population mean, under SpecBench *)

\* the candidate's cev is the mean cev of a non-empty reference population
AtPopulationMean ==
    /\ Scored
    /\ Reference # <<>>
    /\ R(call.new_unit_stats["cev"]) = cev_mean(Reference)

\* C27: for every non-empty reference population, a single member and
\* members of one cev included, a candidate whose cev equals the population
\* mean is classified balanced by _assess_balance, with deviation 0
C27_MeanIsBalanced ==
    AtPopulationMean
        => /\ result.balance_assessment.status = "balanced"
           /\ result.balance_assessment.deviation.sq = R(0)

-----------------------------------------------------------------------------
(* Properties of calculate_special_abilities_value, under SpecAbilities *)

AbilitiesValued ==
    call # NoCall /\ call.op = "calculate_special_abilities_value"

\* what one ability contributes by the documented rule: an active ability
\* damage / c plus heal / c * 0.5 with c its own cooldown, or 10 when that
\* cooldown is 0
OwnCooldown(ability) ==
    IF RLt(R(0), ability.cost.cooldown) THEN ability.cost.cooldown ELSE R(10)

AbilityContribution(ability) ==
    CASE ability.type = "active" ->
           RAdd(IF RLt(R(0), ability.effect.damage)
                THEN RDiv(ability.effect.damage, OwnCooldown(ability))
                ELSE R(0),
                IF RLt(R(0), ability.effect.heal)
                THEN RMul(RDiv(ability.effect.heal, OwnCooldown(ability)),
                          Frac(1, 2))
                ELSE R(0))
      [] ability.type = "passive" -> BuffValue(ability.effect.buff)
      [] ability.type = "toggle" -> R(10)
      [] OTHER -> R(0)

RECURSIVE SumContributions(_, _)
SumContributions(abilities, i) ==
    IF i > Len(abilities) THEN R(0)
    ELSE RAdd(AbilityContribution(abilities[i]),
              SumContributions(abilities, i + 1))

\* C28: calculate_special_abilities_value returns a value for every ability
\* list, and the value is the sum of what each ability contributes on its
\* own, so it does not depend on the order of the list: an active healing
\* ability contributes heal / c * 0.5 with c its own cooldown (10 when the
\* cooldown is 0), whether or not it or an earlier ability deals damage
C28_HealByOwnCooldown ==
    AbilitiesValued
        => /\ result.status = "ok"
           /\ result.ability_value = SumContributions(call.abilities, 1)

-----------------------------------------------------------------------------
(* Properties of UnitDatabase, checked under SpecDatabase *)

\* the step is an add_unit call
UnitAdded == call'.op = "add_unit" /\ database' = UnitDatabase_add_unit(database, call'.unit)

\* C29: after any sequence of add_unit calls, get_unit(c, u) returns the
\* unit most recently added with commander c and english_id u: an add_unit
\* call makes get_unit return the added unit for its own pair and leaves
\* what get_unit returns for every other pair as it was, since distinct
\* pairs never share a storage key
C29_LatestOfItsPair ==
    [][UnitAdded =>
         /\ UnitDatabase_get_unit(database', call'.unit.commander, call'.unit.english_id)
              = call'.unit
         /\ \A c \in CommanderNames, u \in EnglishIds :
              <<c, u>> # <<call'.unit.commander, call'.unit.english_id>>
                => UnitDatabase_get_unit(database', c, u) = UnitDatabase_get_unit(database, c, u)]_vars

-----------------------------------------------------------------------------
(* Properties of the armor adjustment, checked under SpecArmor *)

ArmorAdjusted ==
    call # NoCall /\ call.op \in {"Refined.calculate_effective_hp",
                                  "V24._calculate_effective_hp",
                                  "Enhanced.calculate_effective_hp",
                                  "Unit.effective_hp"}

\* hp * (1 + armor / 10)
LinearArmor(hp, armor) == RMul(R(hp), RAdd(R(1), Frac(armor, 10)))

\* hp / (1 - armor / (armor + 10))
ReductionArmor(hp, armor) ==
    RDiv(R(hp), RSub(R(1), Frac(armor, armor + 10)))

\* C30: for every hp >= 0 and armor >= 0, hp * (1 + armor / 10) equals
\* hp / (1 - armor / (armor + 10)), and each of Refined, V24, Enhanced and
\* Unit.effective_hp returns that value for a unit without shields, so all
\* versions agree on the armor adjustment
C30_ArmorFormsAgree ==
    ArmorAdjusted
        => /\ LinearArmor(call.hp, call.armor)
                = ReductionArmor(call.hp, call.armor)
           /\ result.effective_hp = LinearArmor(call.hp, call.armor)

\* the V24 form has been applied to an armored unit with hit points
C30_Witness ==
    /\ ArmorAdjusted
    /\ call.op = "V24._calculate_effective_hp"
    /\ call.armor > 0
    /\ call.hp > 0
    /\ result.effective_hp = LinearArmor(call.hp, call.armor)
    /\ result.effective_hp # R(call.hp)
====
